---- MODULE Spec2Model ----
(***************************************************************************)
(* Model of the CSV codec of utilful (src/csv.ts): the incremental parser  *)
(* core CSVParserCore, parseCSV, parseCSVStream / parseCSVFromLines,       *)
(* escapeCSVValue and createCSV.                                           *)
(*                                                                         *)
(* A JavaScript string is modelled as a sequence of one-character strings. *)
(* An optional value (a field that may be undefined) is a sequence of      *)
(* length 0 or 1.  An object is the sequence of its <<key, value>>         *)
(* properties in property enumeration order.                               *)
(***************************************************************************)
EXTENDS Naturals, Integers, Sequences, FiniteSets, TLC

VARIABLES
  pc,        \* position of the running entry point
  csv,       \* the text handed to parseCSV / returned by createCSV
  options,   \* parse options {delimiter, trim, strict}
  parser,    \* the CSVParserCore instance (<<>> before construction)
  fed,       \* the concatenation of the chunks parseCSVStream has pulled so far
  lines,     \* the lines parseCSVFromLines has pulled from its source so far
  yielded,   \* what a generator (parseCSVStream, createCSVStream) has yielded
  result,    \* the array returned by parseCSV (<<>> = nothing returned)
  error,     \* the error thrown to the caller (<<>> = none)
  data,      \* the records handed to createCSV
  columns,   \* the column list handed to createCSV (<<>> = omitted)
  createOptions, \* create options {delimiter, addHeader, quoteAll, lineEnding}
  argValue   \* the value handed to escapeCSVValue

vars == <<pc, csv, options, parser, fed, lines, yielded, result, error,
          data, columns, createOptions, argValue>>

\* the inputs of the encoder, which no decoder step touches
encoderInputs == <<data, columns, createOptions, argValue>>

\* ---------------------------------------------------------------- constants

COMMA == ","
DOUBLE_QUOTE == "\""
NEWLINE == "\n"
CARRIAGE_RETURN == "\r"
ESCAPED_QUOTE == <<"\"", "\"">>
SPACE == " "
TAB == "\t"

\* ------------------------------------------------------------------ bounds

MaxLen == 5      \* longest text handed to parseCSV
MaxFed == 5      \* most characters a chunk source delivers in total
MaxChunk == 2    \* longest single chunk
MaxLines == 3    \* most lines a line source delivers
MaxLine == 2     \* longest single line
MaxValueLen == 3 \* longest string handed to escapeCSVValue
MaxColumns == 2  \* longest column list handed to createCSV
MaxRows == 2     \* most records handed to createCSV
MaxCells == 4    \* most cells (records times columns) handed to createCSV
MaxHeaderFields == 4 \* most fields of a header row written field by field
MaxEntries == 3  \* most properties, over all records, handed to the encoders
MaxPad == 2      \* most spaces and tabs written after a closing quote
MaxRowChunk == 4 \* longest chunk of a source that delivers several rows at once
MaxRowFed == 7   \* most characters such a source delivers in total
MaxParses == 2   \* most parseCSVStream parses running at the same time
MaxPulls == 2    \* most chunks each of them pulls

\* ----------------------------------------------------- JavaScript built-ins

None == <<>>
Some(x) == <<x>>

\* the characters String.prototype.trim() removes (those the model can meet)
IsWhitespace(c) == c \in {" ", "\t", "\n", "\r"}

RECURSIVE TrimStart(_)
TrimStart(s) ==
  IF Len(s) > 0 /\ IsWhitespace(s[1]) THEN TrimStart(Tail(s)) ELSE s

RECURSIVE TrimEnd(_)
TrimEnd(s) ==
  IF Len(s) > 0 /\ IsWhitespace(s[Len(s)])
    THEN TrimEnd(SubSeq(s, 1, Len(s) - 1))
    ELSE s

Trim(s) == TrimEnd(TrimStart(s))

Includes(s, c) == \E i \in 1..Len(s) : s[i] = c

RECURSIVE Join(_, _)
Join(parts, sep) ==
  IF Len(parts) = 0 THEN <<>>
  ELSE IF Len(parts) = 1 THEN parts[1]
  ELSE parts[1] \o sep \o Join(Tail(parts), sep)

RECURSIVE Concat(_)
Concat(parts) ==
  IF Len(parts) = 0 THEN <<>> ELSE parts[1] \o Concat(Tail(parts))

Digits == <<"0", "1", "2", "3", "4", "5", "6", "7", "8", "9">>

IsDigit(c) == \E d \in 1..10 : Digits[d] = c

DigitValue(c) == (CHOOSE d \in 1..10 : Digits[d] = c) - 1

\* a property key that is a canonical array index ("0", "7", "42", ...)
IsArrayIndex(key) ==
  /\ Len(key) > 0
  /\ \A i \in 1..Len(key) : IsDigit(key[i])
  /\ (Len(key) = 1 \/ key[1] # "0")

RECURSIVE IndexValue(_)
IndexValue(key) ==
  IF Len(key) = 0 THEN 0
  ELSE 10 * IndexValue(SubSeq(key, 1, Len(key) - 1)) + DigitValue(key[Len(key)])

HasKey(obj, key) == \E i \in 1..Len(obj) : obj[i][1] = key

\* obj[key] = value on an ordinary object: an existing property keeps its
\* place; a new array-index key goes among the index keys in ascending
\* numeric order, any other new key goes last.
DefineProperty(obj, key, value) ==
  IF HasKey(obj, key)
    THEN [i \in 1..Len(obj) |->
            IF obj[i][1] = key THEN <<key, value>> ELSE obj[i]]
    ELSE IF IsArrayIndex(key)
      THEN LET before == {i \in 1..Len(obj) :
                            /\ IsArrayIndex(obj[i][1])
                            /\ IndexValue(obj[i][1]) < IndexValue(key)}
               n == Cardinality(before)
           IN  SubSeq(obj, 1, n) \o <<<<key, value>>>> \o SubSeq(obj, n + 1, Len(obj))
      ELSE Append(obj, <<key, value>>)

RECURSIVE FromEntriesInto(_, _)
FromEntriesInto(obj, entries) ==
  IF Len(entries) = 0 THEN obj
  ELSE FromEntriesInto(DefineProperty(obj, entries[1][1], entries[1][2]),
                       Tail(entries))

FromEntries(entries) == FromEntriesInto(<<>>, entries)

Keys(obj) == [i \in 1..Len(obj) |-> obj[i][1]]

\* ---------------------------------------------------------------- errors

\* Number -> its decimal text inside a template literal
Num(n) == ToString(n)

RangeError(message) == [name |-> "RangeError", message |-> message]
SyntaxError(message) == [name |-> "SyntaxError", message |-> message]
Error(message) == [name |-> "Error", message |-> message]

\* ------------------------------------------------------------ CSVParserCore

\* new CSVParserCore(options, onRow): the field initialisers and, for a
\* delimiter that is not one character long, the RangeError of the
\* constructor.  queue is the array the onRow callback appends to (rows in
\* parseCSV, queue in parseCSVStream).  rowLog is a history field: the raw
\* rows handed to appendRow so far, each with its quoted flags and the
\* length of queue at that time; headerChecks is a history field: the calls
\* of processHeaderRow so far.
NewParser(opts) ==
  [ delimiter |-> opts.delimiter,
    trim |-> opts.trim,
    strict |-> opts.strict,
    currentRow |-> <<>>,
    currentRowQuotedFlags |-> <<>>,
    currentField |-> <<>>,
    inQuotes |-> FALSE,
    isFieldQuoted |-> FALSE,
    currentRowNumber |-> 1,
    headerRaw |-> None,
    headerQuotedFlags |-> None,
    headers |-> None,
    queue |-> <<>>,
    rowLog |-> <<>>,
    headerChecks |-> 0,
    thrown |-> IF Len(opts.delimiter) # 1
                 THEN Some(RangeError(<<"CSV delimiter must be a single character, got \"">>
                                      \o opts.delimiter \o <<"\"">>))
                 ELSE None ]

Throw(p, err) == [p EXCEPT !.thrown = Some(err)]

HasThrown(p) == p.thrown # None

AppendField(p) ==
  [p EXCEPT !.currentRow = Append(@, p.currentField),
            !.currentRowQuotedFlags = Append(@, p.isFieldQuoted),
            !.currentField = <<>>,
            !.isFieldQuoted = FALSE]

\* positions counted from 0, as the array indexes are
EmptyPositions_ZeroBased(headers) ==
  SelectSeq([i \in 1..Len(headers) |-> IF Len(headers[i]) = 0 THEN i - 1 ELSE -1],
            LAMBDA i : i >= 0)

\* headers.map((h, i) => (h.length === 0 ? i + 1 : -1)).filter(i => i > 0)
EmptyPositions(headers) ==
  SelectSeq([i \in 1..Len(headers) |-> IF Len(headers[i]) = 0 THEN i ELSE -1],
            LAMBDA i : i > 0)

\* the repeated names listed in the order of their first occurrence
DuplicateHeaderNames_FirstSeenOrder(headers, headerSet, duplicateHeaderNames) ==
  LET firsts == SelectSeq([i \in 1..Len(headers) |-> i],
                          LAMBDA i : /\ \A k \in 1..(i - 1) : headers[k] # headers[i]
                                     /\ \E k \in (i + 1)..Len(headers) : headers[k] = headers[i])
  IN  [n \in 1..Len(firsts) |-> headers[firsts[n]]]

\* the loop over headers filling headerSet and duplicateHeaderNames; a Set
\* iterates in insertion order, so duplicateHeaderNames is kept as a
\* sequence without repetition
RECURSIVE DuplicateHeaderNames(_, _, _)
DuplicateHeaderNames(headers, headerSet, duplicateHeaderNames) ==
  IF Len(headers) = 0 THEN duplicateHeaderNames
  ELSE LET header == headers[1]
       IN  IF header \in headerSet
             THEN DuplicateHeaderNames(Tail(headers), headerSet,
                    IF \E i \in 1..Len(duplicateHeaderNames) : duplicateHeaderNames[i] = header
                      THEN duplicateHeaderNames
                      ELSE Append(duplicateHeaderNames, header))
             ELSE DuplicateHeaderNames(Tail(headers), headerSet \cup {header},
                                       duplicateHeaderNames)

ProcessHeaderRow(p) ==
  LET headerRow == p.headerRaw[1]
      headerQuotedFlags == IF p.headerQuotedFlags = None THEN <<>> ELSE p.headerQuotedFlags[1]
      headers == IF p.trim
                   THEN [i \in 1..Len(headerRow) |->
                           IF headerQuotedFlags[i] THEN headerRow[i] ELSE Trim(headerRow[i])]
                   ELSE headerRow
      positions == EmptyPositions(headers)
      duplicates == DuplicateHeaderNames(headers, {}, <<>>)
  IN  IF Len(positions) > 0
        THEN Throw(p, SyntaxError(
               <<"CSV header row contains empty column name(s) at position(s): ">>
               \o Join([i \in 1..Len(positions) |-> <<Num(positions[i])>>], <<",", " ">>)))
      ELSE IF Len(duplicates) > 0
        THEN Throw(p, SyntaxError(
               <<"CSV header row contains duplicate column name(s): ">>
               \o Join(duplicates, <<",", " ">>)))
      ELSE [p EXCEPT !.headers = Some(headers)]

\* a test that trims quoted fields as well
IsFieldPopulated_IgnoresQuoted(trim, field, wasQuoted) ==
  IF trim THEN Len(Trim(field)) > 0 ELSE Len(field) > 0

\* trim ? (wasQuoted ? field.length > 0 : field.trim().length > 0) : field.length > 0
IsFieldPopulated(trim, field, wasQuoted) ==
  IF trim
    THEN IF wasQuoted THEN Len(field) > 0 ELSE Len(Trim(field)) > 0
    ELSE Len(field) > 0

\* quotedFlags[idx] ?? false
FlagAt(quotedFlags, idx) ==
  IF idx \in 1..Len(quotedFlags) THEN quotedFlags[idx] ELSE FALSE

\* fieldValues.some((field, idx) => isFieldPopulated(field, quotedFlags[idx] ?? false))
HasAnyPopulatedField(trim, fieldValues, quotedFlags) ==
  \E idx \in 1..Len(fieldValues) :
    IsFieldPopulated(trim, fieldValues[idx], FlagAt(quotedFlags, idx))

\* an overflow test that counts every surplus field, empty or not
ContainsNonEmptyOverflow_AnySurplus(trim, headers, fieldValues, quotedFlags) ==
  Len(fieldValues) > Len(headers)

\* the fields beyond the header count hold a populated one
ContainsNonEmptyOverflow(trim, headers, fieldValues, quotedFlags) ==
  HasAnyPopulatedField(trim,
                       SubSeq(fieldValues, Len(headers) + 1, Len(fieldValues)),
                       SubSeq(quotedFlags, Len(headers) + 1, Len(quotedFlags)))

\* row entries built per raw field instead of per header
RowEntries_PerField(trim, headers, fieldValues, quotedFlags) ==
  [columnIndex \in 1..(IF Len(fieldValues) < Len(headers) THEN Len(fieldValues) ELSE Len(headers)) |->
     <<headers[columnIndex],
       IF trim /\ ~FlagAt(quotedFlags, columnIndex)
         THEN Trim(fieldValues[columnIndex]) ELSE fieldValues[columnIndex]>>]

\* row entries that trim the quoted fields as well
RowEntries_TrimsQuoted(trim, headers, fieldValues, quotedFlags) ==
  [columnIndex \in 1..Len(headers) |->
     LET untrimmedValue == IF columnIndex <= Len(fieldValues)
                             THEN fieldValues[columnIndex] ELSE <<>>
     IN  <<headers[columnIndex],
           IF trim THEN Trim(untrimmedValue) ELSE untrimmedValue>>]

\* headers.map((header, columnIndex) => [header, value])
RowEntries(trim, headers, fieldValues, quotedFlags) ==
  [columnIndex \in 1..Len(headers) |->
     LET untrimmedValue == IF columnIndex <= Len(fieldValues)
                             THEN fieldValues[columnIndex] ELSE <<>>
         wasQuoted == FlagAt(quotedFlags, columnIndex)
     IN  <<headers[columnIndex],
           IF trim /\ ~wasQuoted THEN Trim(untrimmedValue) ELSE untrimmedValue>>]

\* processDataRow once the headers are known to be set
ProcessDataRowWith(p, headers, fieldValues, quotedFlags) ==
  LET hasMultipleFields == Len(fieldValues) > 1
      hasAnyPopulatedField == HasAnyPopulatedField(p.trim, fieldValues, quotedFlags)
      expectedCount == Len(headers)
      actualCount == Len(fieldValues)
      excessCount == actualCount - expectedCount
  IN  IF ~hasMultipleFields /\ ~hasAnyPopulatedField
        THEN p
      ELSE IF /\ Len(fieldValues) > Len(headers)
              /\ p.strict
              /\ ContainsNonEmptyOverflow(p.trim, headers, fieldValues, quotedFlags)
        THEN Throw(p, SyntaxError(
               <<"CSV row ", Num(p.currentRowNumber), " has ", Num(excessCount),
                 " extra field(s): expected ", Num(expectedCount),
                 " column(s), found ", Num(actualCount)>>))
      ELSE [p EXCEPT !.queue =
              Append(@, FromEntries(RowEntries(p.trim, headers, fieldValues, quotedFlags)))]

ProcessDataRow(p, fieldValues, quotedFlags) ==
  IF p.headers = None
    THEN Throw(p, Error(<<"CSVParserCore: headers not initialized">>))
    ELSE ProcessDataRowWith(p, p.headers[1], fieldValues, quotedFlags)

\* appendRow after its appendField: the row is handed to processHeaderRow
\* (the first row) or to processDataRow
\* a row processing that forgets to keep headerRaw
ProcessRow_ForgetsHeaderRaw(q) ==
  IF q.headerRaw = None
    THEN [ProcessHeaderRow([q EXCEPT !.headerRaw = Some(q.currentRow),
                                     !.headerQuotedFlags = Some(q.currentRowQuotedFlags),
                                     !.headerChecks = @ + 1])
            EXCEPT !.headerRaw = None]
    ELSE ProcessDataRow(q, q.currentRow, q.currentRowQuotedFlags)

ProcessRow(q) ==
  IF q.headerRaw = None
    THEN ProcessHeaderRow([q EXCEPT !.headerRaw = Some(q.currentRow),
                                    !.headerQuotedFlags = Some(q.currentRowQuotedFlags),
                                    !.headerChecks = @ + 1])
    ELSE ProcessDataRow(q, q.currentRow, q.currentRowQuotedFlags)

\* an end of appendRow that forgets to advance the row counter
ResetRow_KeepsRowNumber(processed) ==
  IF HasThrown(processed)
    THEN processed
    ELSE [processed EXCEPT !.currentRow = <<>>,
                           !.currentRowQuotedFlags = <<>>]

\* the end of appendRow, which a throw of the row's processing skips
ResetRow(processed) ==
  IF HasThrown(processed)
    THEN processed
    ELSE [processed EXCEPT !.currentRow = <<>>,
                           !.currentRowQuotedFlags = <<>>,
                           !.currentRowNumber = @ + 1]

\* the history field rowLog takes the row appendRow is about to process and
\* the number of records emitted before it
LogRow(q) ==
  [q EXCEPT !.rowLog = Append(@, [fields |-> q.currentRow,
                                  quoted |-> q.currentRowQuotedFlags,
                                  queued |-> Len(q.queue)])]

AppendRow(p) == ResetRow(ProcessRow(LogRow(AppendField(p))))

\* an index advance that leaves the line feed of a CRLF pair to the next turn
AfterRowTerminator_KeepsLineFeed(character, nextCharacter, i) == i + 1

\* the index after a row terminator: a CRLF pair is skipped as a whole
AfterRowTerminator(character, nextCharacter, i) ==
  IF character = CARRIAGE_RETURN /\ nextCharacter = NEWLINE THEN i + 2 ELSE i + 1

\* a test that takes the delimiter for whitespace to skip as well
IsSkippedAfterQuote_DelimiterToo(p, character) ==
  /\ p.isFieldQuoted
  /\ ~p.inQuotes
  /\ (character = SPACE \/ character = TAB)

\* the first test of the loop of push: a space or tab after the closing quote
\* of the field is skipped, unless it is the delimiter
IsSkippedAfterQuote(p, character) ==
  /\ p.isFieldQuoted
  /\ ~p.inQuotes
  /\ <<character>> # p.delimiter
  /\ (character = SPACE \/ character = TAB)

\* a test that lets a quote open quoted mode anywhere outside quotes
OpensQuotedField_AnyPosition(p) == ~p.inQuotes

\* a quote at the start of a field opens quoted mode
OpensQuotedField(p) == Len(p.currentField) = 0 /\ ~p.inQuotes

\* one iteration of the loop of push: the parser after the body has run for
\* chunk[i], and the index the loop continues with
PushCharacter(p, chunk, i) ==
  LET character == chunk[i]
      nextCharacter == IF i + 1 <= Len(chunk) THEN chunk[i + 1] ELSE ""
  IN  IF IsSkippedAfterQuote(p, character)
        THEN [p |-> p, i |-> i + 1]
      ELSE IF character = DOUBLE_QUOTE
        THEN IF OpensQuotedField(p)
               THEN [p |-> [p EXCEPT !.inQuotes = TRUE, !.isFieldQuoted = TRUE], i |-> i + 1]
             ELSE IF p.inQuotes /\ nextCharacter = DOUBLE_QUOTE
               THEN [p |-> [p EXCEPT !.currentField = Append(@, DOUBLE_QUOTE)], i |-> i + 2]
             ELSE IF p.inQuotes
               THEN [p |-> [p EXCEPT !.inQuotes = FALSE], i |-> i + 1]
             ELSE [p |-> [p EXCEPT !.currentField = Append(@, character)], i |-> i + 1]
      ELSE IF <<character>> = p.delimiter /\ ~p.inQuotes
        THEN [p |-> AppendField(p), i |-> i + 1]
      ELSE IF (character = NEWLINE \/ character = CARRIAGE_RETURN) /\ ~p.inQuotes
        THEN [p |-> AppendRow(p), i |-> AfterRowTerminator(character, nextCharacter, i)]
      ELSE [p |-> [p EXCEPT !.currentField = Append(@, character)], i |-> i + 1]

\* the loop of push from index i on; a throw leaves the loop
RECURSIVE PushFrom(_, _, _)
PushStep(step, chunk) == PushFrom(step.p, chunk, step.i)

PushFrom(p, chunk, i) ==
  IF i > Len(chunk) \/ HasThrown(p) THEN p
  ELSE PushStep(PushCharacter(p, chunk, i), chunk)

Push(p, chunk) == PushFrom(p, chunk, 1)

\* a finish without the check for an open quoted field
Finish_FlushesOpenField(p) ==
  IF p.currentField # <<>> \/ Len(p.currentRow) > 0
    THEN AppendRow(p)
    ELSE p

Finish(p) ==
  IF p.inQuotes
    THEN Throw(p, SyntaxError(<<"CSV contains unterminated quoted field at row ",
                                Num(p.currentRowNumber)>>))
  ELSE IF p.currentField # <<>> \/ Len(p.currentRow) > 0
    THEN AppendRow(p)
  ELSE p

\* ------------------------------------------------------------------ parseCSV

\* the outcome of parseCSV(csv, opts): the array returned or the error
\* thrown, and the parser instance it worked with
\* parseCSV from parser.finish() on
ParseCSVFinished(finished) ==
  IF HasThrown(finished)
    THEN [returned |-> None, thrown |-> finished.thrown, parser |-> Some(finished)]
    ELSE [returned |-> Some(finished.queue), thrown |-> None, parser |-> Some(finished)]

\* parseCSV from parser.push(csv) on
ParseCSVPushed(pushed) ==
  IF HasThrown(pushed)
    THEN [returned |-> None, thrown |-> pushed.thrown, parser |-> Some(pushed)]
    ELSE ParseCSVFinished(Finish(pushed))

\* parseCSV from new CSVParserCore(options, ...) on
ParseCSVCreated(created, text) ==
  IF HasThrown(created)
    THEN [returned |-> None, thrown |-> created.thrown, parser |-> None]
    ELSE ParseCSVPushed(Push(created, text))

ParseCSV(text, opts) ==
  IF Len(Trim(text)) = 0
    THEN [returned |-> Some(<<>>), thrown |-> None, parser |-> None]
    ELSE ParseCSVCreated(NewParser(opts), text)

\* ---------------------------------------------------------- JavaScript values

\* a value is its type and the text String(value) gives
Str(s) == [type |-> "string", text |-> s]
Null == [type |-> "null", text |-> <<"n", "u", "l", "l">>]
Undefined == [type |-> "undefined", text |-> <<"u", "n", "d", "e", "f", "i", "n", "e", "d">>]
NumberValue(digits) == [type |-> "number", text |-> digits]
True == [type |-> "boolean", text |-> <<"t", "r", "u", "e">>]

String(v) == v.text

\* value == null
IsNullish(v) == v.type \in {"null", "undefined"}

\* obj[key]
Get(obj, key) ==
  IF HasKey(obj, key)
    THEN obj[CHOOSE i \in 1..Len(obj) : obj[i][1] = key][2]
    ELSE Undefined

\* s.includes(sub)
IncludesString(s, sub) ==
  \E i \in 1..(Len(s) + 1) :
    /\ i + Len(sub) - 1 <= Len(s)
    /\ SubSeq(s, i, i + Len(sub) - 1) = sub

\* s.replaceAll(c, replacement) for a one-character pattern c
RECURSIVE ReplaceAll(_, _, _)
ReplaceAll(s, c, replacement) ==
  IF Len(s) = 0 THEN <<>>
  ELSE (IF s[1] = c THEN replacement ELSE <<s[1]>>) \o ReplaceAll(Tail(s), c, replacement)

\* ------------------------------------------------------------------- encoder

DefaultCreateOptions ==
  [delimiter |-> <<COMMA>>, addHeader |-> TRUE, quoteAll |-> FALSE, lineEnding |-> <<NEWLINE>>]

\* an escaper that wraps a value in quotes without doubling the quotes in it
EscapeCSVValue_KeepsQuotes(v, delimiter, quoteAll) ==
  IF IsNullish(v) THEN <<>>
  ELSE IF \/ quoteAll
          \/ IncludesString(String(v), delimiter)
          \/ Includes(String(v), DOUBLE_QUOTE)
          \/ Includes(String(v), NEWLINE)
          \/ Includes(String(v), CARRIAGE_RETURN)
    THEN <<DOUBLE_QUOTE>> \o String(v) \o <<DOUBLE_QUOTE>>
    ELSE String(v)

\* an escaper that does not quote for a carriage return
EscapeCSVValue_IgnoresCarriageReturn(v, delimiter, quoteAll) ==
  IF IsNullish(v) THEN <<>>
  ELSE IF \/ quoteAll
          \/ IncludesString(String(v), delimiter)
          \/ Includes(String(v), DOUBLE_QUOTE)
          \/ Includes(String(v), NEWLINE)
    THEN <<DOUBLE_QUOTE>> \o ReplaceAll(String(v), DOUBLE_QUOTE, ESCAPED_QUOTE)
           \o <<DOUBLE_QUOTE>>
    ELSE String(v)

\* an escaper that quotes only where a character requires it, whatever
\* quoteAll is
EscapeCSVValue_IgnoresQuoteAll(v, delimiter, quoteAll) ==
  IF IsNullish(v) THEN <<>>
  ELSE IF \/ IncludesString(String(v), delimiter)
          \/ Includes(String(v), DOUBLE_QUOTE)
          \/ Includes(String(v), NEWLINE)
          \/ Includes(String(v), CARRIAGE_RETURN)
    THEN <<DOUBLE_QUOTE>> \o ReplaceAll(String(v), DOUBLE_QUOTE, ESCAPED_QUOTE)
           \o <<DOUBLE_QUOTE>>
    ELSE String(v)

EscapeCSVValue(v, delimiter, quoteAll) ==
  IF IsNullish(v) THEN <<>>
  ELSE LET coercedValue == String(v)
           hasQuote == Includes(coercedValue, DOUBLE_QUOTE)
           requiresQuoting ==
             \/ quoteAll
             \/ IncludesString(coercedValue, delimiter)
             \/ hasQuote
             \/ Includes(coercedValue, NEWLINE)
             \/ Includes(coercedValue, CARRIAGE_RETURN)
           escaped == IF hasQuote
                        THEN ReplaceAll(coercedValue, DOUBLE_QUOTE, ESCAPED_QUOTE)
                        ELSE coercedValue
       IN  IF requiresQuoting
             THEN <<DOUBLE_QUOTE>> \o escaped \o <<DOUBLE_QUOTE>>
             ELSE coercedValue

EncodeCSVHeader(cols, delimiter, quoteAll) ==
  Join([i \in 1..Len(cols) |-> EscapeCSVValue(Str(cols[i]), delimiter, quoteAll)], delimiter)

\* a row encoder that leaves empty cells out of the line
EncodeCSVRow_DropsEmptyCells(row, cols, delimiter, quoteAll) ==
  Join(SelectSeq([i \in 1..Len(cols) |-> EscapeCSVValue(Get(row, cols[i]), delimiter, quoteAll)],
                 LAMBDA cell : Len(cell) > 0),
       delimiter)

EncodeCSVRow(row, cols, delimiter, quoteAll) ==
  Join([i \in 1..Len(cols) |-> EscapeCSVValue(Get(row, cols[i]), delimiter, quoteAll)], delimiter)

\* the loop of inferColumns over the keys of one row
RECURSIVE InferFromKeys(_, _)
InferFromKeys(cols, keys) ==
  IF Len(keys) = 0 THEN cols
  ELSE InferFromKeys(
         IF \E i \in 1..Len(cols) : cols[i] = keys[1] THEN cols ELSE Append(cols, keys[1]),
         Tail(keys))

RECURSIVE InferColumnsInto(_, _)
InferColumnsInto(cols, rows) ==
  IF Len(rows) = 0 THEN cols
  ELSE InferColumnsInto(InferFromKeys(cols, Keys(rows[1])), Tail(rows))

\* an inference that reads the keys of the first record only
InferColumns_FirstRecordOnly(rows) ==
  IF Len(rows) = 0 THEN <<>> ELSE InferFromKeys(<<>>, Keys(rows[1]))

InferColumns(rows) == InferColumnsInto(<<>>, rows)

\* a createCSV that ends the last record line with the line ending, too
CreateCSV_TrailingLineEnding(rows, cols, opts) ==
  LET columnList == IF cols = None THEN InferColumns(rows) ELSE cols[1]
      header == EncodeCSVHeader(columnList, opts.delimiter, opts.quoteAll)
      bodyLines == [i \in 1..Len(rows) |->
                      EncodeCSVRow(rows[i], columnList, opts.delimiter, opts.quoteAll)]
  IN  IF Len(columnList) = 0 /\ Len(rows) = 0
        THEN [returned |-> Some(<<>>), thrown |-> None]
      ELSE IF Len(opts.delimiter) # 1
        THEN [returned |-> None,
              thrown |-> Some(RangeError(<<"CSV delimiter must be a single character, got \"">>
                                         \o opts.delimiter \o <<"\"">>))]
      ELSE IF opts.addHeader
        THEN IF Len(rows) = 0
               THEN [returned |-> Some(header), thrown |-> None]
               ELSE [returned |-> Some(header \o opts.lineEnding \o Join(bodyLines, opts.lineEnding)
                                       \o opts.lineEnding),
                     thrown |-> None]
      ELSE [returned |-> Some(Join(bodyLines, opts.lineEnding) \o opts.lineEnding),
            thrown |-> None]

\* a createCSV that writes the header line whatever addHeader is
CreateCSV_AlwaysHeader(rows, cols, opts) ==
  LET columnList == IF cols = None THEN InferColumns(rows) ELSE cols[1]
      header == EncodeCSVHeader(columnList, opts.delimiter, opts.quoteAll)
      bodyLines == [i \in 1..Len(rows) |->
                      EncodeCSVRow(rows[i], columnList, opts.delimiter, opts.quoteAll)]
  IN  IF Len(columnList) = 0 /\ Len(rows) = 0
        THEN [returned |-> Some(<<>>), thrown |-> None]
      ELSE IF Len(opts.delimiter) # 1
        THEN [returned |-> None,
              thrown |-> Some(RangeError(<<"CSV delimiter must be a single character, got \"">>
                                         \o opts.delimiter \o <<"\"">>))]
      ELSE IF TRUE
        THEN IF Len(rows) = 0
               THEN [returned |-> Some(header), thrown |-> None]
               ELSE [returned |-> Some(header \o opts.lineEnding \o Join(bodyLines, opts.lineEnding)),
                     thrown |-> None]
      ELSE [returned |-> Some(Join(bodyLines, opts.lineEnding)), thrown |-> None]

\* createCSV(rows, cols?, opts): cols is None when the column list is omitted
CreateCSV(rows, cols, opts) ==
  LET columnList == IF cols = None THEN InferColumns(rows) ELSE cols[1]
      header == EncodeCSVHeader(columnList, opts.delimiter, opts.quoteAll)
      bodyLines == [i \in 1..Len(rows) |->
                      EncodeCSVRow(rows[i], columnList, opts.delimiter, opts.quoteAll)]
  IN  IF Len(columnList) = 0 /\ Len(rows) = 0
        THEN [returned |-> Some(<<>>), thrown |-> None]
      ELSE IF Len(opts.delimiter) # 1
        THEN [returned |-> None,
              thrown |-> Some(RangeError(<<"CSV delimiter must be a single character, got \"">>
                                         \o opts.delimiter \o <<"\"">>))]
      ELSE IF opts.addHeader
        THEN IF Len(rows) = 0
               THEN [returned |-> Some(header), thrown |-> None]
               ELSE [returned |-> Some(header \o opts.lineEnding \o Join(bodyLines, opts.lineEnding)),
                     thrown |-> None]
      ELSE [returned |-> Some(Join(bodyLines, opts.lineEnding)), thrown |-> None]

\* -------------------------------------------------------------- input sets

\* every string over alphabet of at most n characters
Strings(alphabet, n) == UNION {[1..k -> alphabet] : k \in 0..n}

ParseChars == {"a", "1", ",", "\n", "\"", " "}

ParseOptions == [delimiter : {<<COMMA>>}, trim : BOOLEAN, strict : BOOLEAN]

\* ------------------------------------------------- specification: parseCSV

InitParse ==
  /\ pc = "parseCSV"
  /\ csv \in Strings(ParseChars, MaxLen)
  /\ options \in ParseOptions
  /\ parser = None
  /\ fed = <<>>
  /\ lines = <<>>
  /\ yielded = <<>>
  /\ result = None
  /\ error = None
  /\ data = <<>>
  /\ columns = None
  /\ createOptions = DefaultCreateOptions
  /\ argValue = Undefined

\* the call parseCSV(csv, options)
ParseCSVCall ==
  /\ pc = "parseCSV"
  /\ \E outcome \in {ParseCSV(csv, options)} :
         /\ parser' = outcome.parser
         /\ result' = outcome.returned
         /\ error' = outcome.thrown
         /\ pc' = IF outcome.thrown = None THEN "returned" ELSE "threw"
  /\ UNCHANGED <<csv, options, fed, lines, yielded, encoderInputs>>

NextParse == ParseCSVCall

SpecParse == InitParse /\ [][NextParse]_vars

\* ------------------------------- specification: parseCSV of a header row

\* the header fields as written in the text: plain, padded and quoted names
HeaderFields ==
  {<<"a">>, <<"1">>, <<" ", "a">>, <<"\"", "a", "\"">>, <<"\"", " ", "a", "\"">>}

\* parseCSV is about to be called on a text that is a single header row
InitHeader ==
  /\ pc = "parseCSV"
  /\ \E n \in 1..MaxHeaderFields :
       \E fields \in [1..n -> HeaderFields] : csv = Join(fields, <<COMMA>>)
  /\ options \in ParseOptions
  /\ parser = None
  /\ fed = <<>>
  /\ lines = <<>>
  /\ yielded = <<>>
  /\ result = None
  /\ error = None
  /\ data = <<>>
  /\ columns = None
  /\ createOptions = DefaultCreateOptions
  /\ argValue = Undefined

NextHeader == ParseCSVCall

SpecHeader == InitHeader /\ [][NextHeader]_vars

\* --------------------------- specification: parseCSVStream / parseCSVFromLines

StreamChars == {"a", ",", "\n", "\r", "\"", " "}

Init ==
  /\ pc = "start"
  /\ csv = <<>>
  /\ options \in ParseOptions
  /\ parser = None
  /\ fed = <<>>
  /\ lines = <<>>
  /\ yielded = <<>>
  /\ result = None
  /\ error = None
  /\ data = <<>>
  /\ columns = None
  /\ createOptions = DefaultCreateOptions
  /\ argValue = Undefined

\* the first next() on the generator: the queue and the parser are created
\* and the first chunk is requested
ParseCSVStreamStart ==
  /\ pc = "start"
  /\ \E created \in {NewParser(options)} :
         /\ parser' = Some(created)
         /\ error' = created.thrown
         /\ pc' = IF HasThrown(created) THEN "threw" ELSE "await"
  /\ UNCHANGED <<csv, options, fed, lines, yielded, result, encoderInputs>>

\* a push whose throw still lets the queued records be drained
PushChunk_DrainsAfterThrow(chunk) ==
  \E pushed \in {Push(parser[1], chunk)} :
      /\ parser' = Some(pushed)
      /\ fed' = fed \o chunk
      /\ error' = pushed.thrown
      /\ pc' = IF Len(pushed.queue) > 0 THEN "drain"
               ELSE IF HasThrown(pushed) THEN "threw"
               ELSE "await"

\* parser.push(chunk) in the for-await loop, then the while loop is entered
\* (or, with an empty queue, the next chunk is requested)
PushChunk(chunk) ==
  \E pushed \in {Push(parser[1], chunk)} :
      /\ parser' = Some(pushed)
      /\ fed' = fed \o chunk
      /\ error' = pushed.thrown
      /\ pc' = IF HasThrown(pushed) THEN "threw"
               ELSE IF Len(pushed.queue) > 0 THEN "drain"
               ELSE "await"

\* the source of parseCSVStream delivers a chunk
ParseCSVStreamChunk ==
  /\ pc = "await"
  /\ \E chunk \in Strings(StreamChars, MaxChunk) :
       /\ Len(fed) + Len(chunk) <= MaxFed
       /\ PushChunk(chunk)
  /\ UNCHANGED <<csv, options, lines, yielded, result, encoderInputs>>

\* a drain loop that takes the newest queued record first
ParseCSVStreamYield_NewestFirst ==
  /\ pc \in {"drain", "flush"}
  /\ Len(parser[1].queue) > 0
  /\ yielded' = Append(yielded, parser[1].queue[Len(parser[1].queue)])
  /\ parser' = Some([parser[1] EXCEPT !.queue = SubSeq(@, 1, Len(@) - 1)])
  /\ pc' = IF Len(parser[1].queue) > 1 THEN pc
           ELSE IF pc = "drain" THEN "await"
           ELSE "done"
  /\ UNCHANGED <<csv, options, fed, lines, result, error, encoderInputs>>

\* yield queue.shift()! in either while loop
ParseCSVStreamYield ==
  /\ pc \in {"drain", "flush"}
  /\ Len(parser[1].queue) > 0
  /\ yielded' = Append(yielded, Head(parser[1].queue))
  /\ parser' = Some([parser[1] EXCEPT !.queue = Tail(@)])
  /\ pc' = IF Len(parser[1].queue) > 1 THEN pc
           ELSE IF pc = "drain" THEN "await"
           ELSE "done"
  /\ UNCHANGED <<csv, options, fed, lines, result, error, encoderInputs>>

\* the source is exhausted: parser.finish(), then the second while loop
ParseCSVStreamEnd ==
  /\ pc = "await"
  /\ \E finished \in {Finish(parser[1])} :
         /\ parser' = Some(finished)
         /\ error' = finished.thrown
         /\ pc' = IF HasThrown(finished) THEN "threw"
                  ELSE IF Len(finished.queue) > 0 THEN "flush"
                  ELSE "done"
  /\ UNCHANGED <<csv, options, fed, lines, yielded, result, encoderInputs>>

Next ==
  \/ ParseCSVStreamStart
  \/ ParseCSVStreamChunk
  \/ ParseCSVStreamYield
  \/ ParseCSVStreamEnd

Spec == Init /\ [][Next]_vars

\* ------------------------------------------- specification: parseCSVFromLines

LineChars == {"a", ",", "\n"}

\* parseCSVFromLines is yield* parseCSVStream(lines, options): the source of
\* lines is the chunk source, a line is pushed exactly as a chunk is
ParseCSVFromLinesLine ==
  /\ pc = "await"
  /\ Len(lines) < MaxLines
  /\ \E line \in Strings(LineChars, MaxLine) :
       /\ lines' = Append(lines, line)
       /\ PushChunk(line)
  /\ UNCHANGED <<csv, options, yielded, result, encoderInputs>>

NextLines ==
  \/ ParseCSVStreamStart
  \/ ParseCSVFromLinesLine
  \/ ParseCSVStreamYield
  \/ ParseCSVStreamEnd

SpecLines == Init /\ [][NextLines]_vars

\* ------------------------------- specification: createCSV, then parseCSV

ColumnNames == {<<"a">>, <<"b">>, <<>>, <<" ", "a">>, <<"a", ",">>}

CellValues == {<<>>, <<"a">>, <<"b">>, <<" ", "a">>, <<",">>, <<"\"">>}

RoundTripDelimiters == {<<",">>, <<" ">>, <<"\"">>, <<"\n">>, <<"\r">>}

\* a rectangular record list: every record has the names of the column list
\* as its keys
InitRoundTrip ==
  /\ pc = "createCSV"
  /\ \E n \in 0..MaxColumns, r \in 0..MaxRows :
       /\ r * n <= MaxCells
       /\ \E names \in [1..n -> ColumnNames], cells \in [1..r -> [1..n -> CellValues]] :
            /\ columns = Some(names)
            /\ data = [i \in 1..r |->
                         FromEntries([j \in 1..n |-> <<names[j], Str(cells[i][j])>>])]
  /\ \E d \in RoundTripDelimiters :
       /\ createOptions = [DefaultCreateOptions EXCEPT !.delimiter = d]
       /\ options = [delimiter |-> d, trim |-> TRUE, strict |-> TRUE]
  /\ csv = <<>>
  /\ parser = None
  /\ fed = <<>>
  /\ lines = <<>>
  /\ yielded = <<>>
  /\ result = None
  /\ error = None
  /\ argValue = Undefined

\* the call createCSV(data, columns, createOptions); its text goes to parseCSV
CreateCSVCall ==
  /\ pc = "createCSV"
  /\ \E outcome \in {CreateCSV(data, columns, createOptions)} :
         /\ csv' = IF outcome.thrown = None THEN outcome.returned[1] ELSE csv
         /\ error' = outcome.thrown
         /\ pc' = IF outcome.thrown = None THEN "parseCSV" ELSE "threw"
  /\ UNCHANGED <<options, parser, fed, lines, yielded, result, encoderInputs>>

NextRoundTrip ==
  \/ CreateCSVCall
  \/ ParseCSVCall

SpecRoundTrip == InitRoundTrip /\ [][NextRoundTrip]_vars

\* ------------------- specification: createCSV or parseCSV, any delimiter

\* delimiter options of length 0, 1 and 2
AnyDelimiters == {<<>>, <<",">>, <<";">>, <<";", ";">>}

DelimiterChars == {"a", ";", " ", "\n"}

\* either createCSV is about to be called on a list of one-column records,
\* or parseCSV on a text; the delimiter option is of any length
InitDelimiter ==
  /\ \E d \in AnyDelimiters :
       /\ createOptions = [DefaultCreateOptions EXCEPT !.delimiter = d]
       /\ \E t \in BOOLEAN : options = [delimiter |-> d, trim |-> t, strict |-> TRUE]
  /\ \/ /\ pc = "createCSV"
        /\ csv = <<>>
        /\ \E n \in 0..1, r \in 0..MaxRows :
             \E cells \in [1..r -> [1..n -> CellValues]] :
               /\ columns = Some([j \in 1..n |-> <<"a">>])
               /\ data = [i \in 1..r |->
                            FromEntries([j \in 1..n |-> <<<<"a">>, Str(cells[i][j])>>])]
     \/ /\ pc = "parseCSV"
        /\ csv \in Strings(DelimiterChars, MaxValueLen)
        /\ columns = None
        /\ data = <<>>
  /\ parser = None
  /\ fed = <<>>
  /\ lines = <<>>
  /\ yielded = <<>>
  /\ result = None
  /\ error = None
  /\ argValue = Undefined

NextDelimiter ==
  \/ CreateCSVCall
  \/ ParseCSVCall

SpecDelimiter == InitDelimiter /\ [][NextDelimiter]_vars

\* --------------------- specification: escapeCSVValue, then parseCSV

EscapeChars == {"a", ",", "\"", "\n", "\r", " "}

EscapeValues ==
  {Null, Undefined, True, NumberValue(<<"4", "2">>)}
    \cup {Str(s) : s \in Strings(EscapeChars, MaxValueLen)}

HeaderNames == {<<"a">>, <<"1">>}

InitEscape ==
  /\ pc = "escapeCSVValue"
  /\ argValue \in EscapeValues
  /\ columns \in {Some(<<name>>) : name \in HeaderNames}
  /\ data = <<>>
  /\ createOptions = DefaultCreateOptions
  /\ options = [delimiter |-> <<COMMA>>, trim |-> TRUE, strict |-> TRUE]
  /\ csv = <<>>
  /\ parser = None
  /\ fed = <<>>
  /\ lines = <<>>
  /\ yielded = <<>>
  /\ result = None
  /\ error = None

\* the call escapeCSVValue(argValue) with default options; its text becomes
\* the single data line of a document under the one-name header line
EscapeCSVValueCall ==
  /\ pc = "escapeCSVValue"
  /\ csv' = columns[1][1] \o <<NEWLINE>>
              \o EscapeCSVValue(argValue, createOptions.delimiter, createOptions.quoteAll)
  /\ pc' = "parseCSV"
  /\ UNCHANGED <<options, parser, fed, lines, yielded, result, error, encoderInputs>>

NextEscape ==
  \/ EscapeCSVValueCall
  \/ ParseCSVCall

SpecEscape == InitEscape /\ [][NextEscape]_vars

\* ------------------------------------------ specification: createCSV

\* the property names of the records; b is in no column list
RecordKeys == {<<"a">>, <<"b">>}

\* the names of the column lists; c is a property of no record
ListedColumns == {<<"a">>, <<"c">>}

RecordValues == {Str(<<>>), Str(<<",">>), Null}

\* the records of at most two properties, in every order of their keys
Records ==
  {FromEntries(entries) :
     entries \in UNION {[1..k -> RecordKeys \X RecordValues] : k \in 0..2}}

\* the record lists of at most MaxRows records and MaxEntries properties
RECURSIVE RecordLists(_, _)
RecordLists(rows, entries) ==
  IF rows = 0 THEN {<<>>}
  ELSE {<<>>} \cup
       UNION {{<<row>> \o rest : rest \in RecordLists(rows - 1, entries - Len(row))} :
                row \in {row \in Records : Len(row) <= entries}}

ColumnLists ==
  {None} \cup {Some(cols) : cols \in UNION {[1..k -> ListedColumns] : k \in 0..MaxColumns}}

CreateOptionSets ==
  [delimiter : {<<COMMA>>, <<NEWLINE>>}, addHeader : BOOLEAN, quoteAll : BOOLEAN,
   lineEnding : {<<NEWLINE>>, <<CARRIAGE_RETURN, NEWLINE>>}]

\* createCSV is about to be called on a record list, with or without a
\* column list, under some options
InitCreate ==
  /\ pc = "createCSV"
  /\ data \in RecordLists(MaxRows, MaxEntries)
  /\ columns \in ColumnLists
  /\ createOptions \in CreateOptionSets
  /\ options = [delimiter |-> <<COMMA>>, trim |-> TRUE, strict |-> TRUE]
  /\ csv = <<>>
  /\ parser = None
  /\ fed = <<>>
  /\ lines = <<>>
  /\ yielded = <<>>
  /\ result = None
  /\ error = None
  /\ argValue = Undefined

\* the call createCSV(data, columns, createOptions); csv takes the text it
\* returns
CreateCSVReturn ==
  /\ pc = "createCSV"
  /\ \E outcome \in {CreateCSV(data, columns, createOptions)} :
         /\ csv' = IF outcome.thrown = None THEN outcome.returned[1] ELSE csv
         /\ error' = outcome.thrown
         /\ pc' = IF outcome.thrown = None THEN "created" ELSE "threw"
  /\ UNCHANGED <<options, parser, fed, lines, yielded, result, encoderInputs>>

NextCreate == CreateCSVReturn

SpecCreate == InitCreate /\ [][NextCreate]_vars

\* ------------------------- specification: createCSVAsync / createCSVStream

StreamColumnLists == {Some(<<>>), Some(<<<<"a">>>>), Some(<<<<"a">>, <<"c">>>>)}

StreamOptionSets ==
  [delimiter : {<<COMMA>>, <<>>}, addHeader : BOOLEAN, quoteAll : {FALSE},
   lineEnding : {<<NEWLINE>>, <<CARRIAGE_RETURN, NEWLINE>>}]

\* createCSVAsync is about to iterate createCSVStream over the source data
InitCreateStream ==
  /\ pc = "createCSVStream"
  /\ data \in RecordLists(MaxRows, MaxEntries)
  /\ columns \in StreamColumnLists
  /\ createOptions \in StreamOptionSets
  /\ options = [delimiter |-> <<COMMA>>, trim |-> TRUE, strict |-> TRUE]
  /\ csv = <<>>
  /\ parser = None
  /\ fed = <<>>
  /\ lines = <<>>
  /\ yielded = <<>>
  /\ result = None
  /\ error = None
  /\ argValue = Undefined

\* a chunk without its line ending
StreamChunk_Bare(line, lineEnding) == line

\* yield line + lineEnding
StreamChunk(line, lineEnding) == line \o lineEnding

\* the records createCSVStream has pulled from its source
RecordsTaken ==
  Len(yielded) - (IF createOptions.addHeader THEN 1 ELSE 0)

\* the first next() on createCSVStream: the delimiter check and, with
\* addHeader, the header chunk
CreateCSVStreamStart ==
  /\ pc = "createCSVStream"
  /\ IF Len(createOptions.delimiter) # 1
       THEN /\ error' = Some(RangeError(<<"CSV delimiter must be a single character, got \"">>
                                        \o createOptions.delimiter \o <<"\"">>))
            /\ pc' = "threw"
            /\ yielded' = yielded
       ELSE /\ error' = error
            /\ pc' = "rows"
            /\ yielded' =
                 IF createOptions.addHeader
                   THEN <<StreamChunk(EncodeCSVHeader(columns[1], createOptions.delimiter,
                                                      createOptions.quoteAll),
                                      createOptions.lineEnding)>>
                   ELSE <<>>
  /\ UNCHANGED <<csv, options, parser, fed, lines, result, encoderInputs>>

\* the source delivers its next record: its line is yielded and pushed to
\* the chunks of createCSVAsync
CreateCSVStreamRow ==
  /\ pc = "rows"
  /\ RecordsTaken < Len(data)
  /\ yielded' = Append(yielded,
                       StreamChunk(EncodeCSVRow(data[RecordsTaken + 1], columns[1],
                                                createOptions.delimiter,
                                                createOptions.quoteAll),
                                   createOptions.lineEnding))
  /\ UNCHANGED <<pc, csv, options, parser, fed, lines, result, error, encoderInputs>>

\* the source is exhausted: createCSVAsync returns chunks.join('')
CreateCSVAsyncReturn ==
  /\ pc = "rows"
  /\ RecordsTaken = Len(data)
  /\ csv' = Concat(yielded)
  /\ pc' = "joined"
  /\ UNCHANGED <<options, parser, fed, lines, yielded, result, error, encoderInputs>>

NextCreateStream ==
  \/ CreateCSVStreamStart
  \/ CreateCSVStreamRow
  \/ CreateCSVAsyncReturn

SpecCreateStream == InitCreateStream /\ [][NextCreateStream]_vars

\* ------------------------------------- specification: escapeCSVValue

EscapeDelimiters == {<<",">>, <<";">>, <<"a">>}

\* escapeCSVValue is about to be called with a delimiter and quoteAll
InitEscapeOnly ==
  /\ pc = "escapeCSVValue"
  /\ argValue \in EscapeValues
  /\ \E d \in EscapeDelimiters, q \in BOOLEAN :
       createOptions = [DefaultCreateOptions EXCEPT !.delimiter = d, !.quoteAll = q]
  /\ columns = None
  /\ data = <<>>
  /\ options = [delimiter |-> <<COMMA>>, trim |-> TRUE, strict |-> TRUE]
  /\ csv = <<>>
  /\ parser = None
  /\ fed = <<>>
  /\ lines = <<>>
  /\ yielded = <<>>
  /\ result = None
  /\ error = None

\* the call escapeCSVValue(argValue, {delimiter, quoteAll}); csv takes the
\* text it returns
EscapeCSVValueReturn ==
  /\ pc = "escapeCSVValue"
  /\ csv' = EscapeCSVValue(argValue, createOptions.delimiter, createOptions.quoteAll)
  /\ pc' = "escaped"
  /\ UNCHANGED <<options, parser, fed, lines, yielded, result, error, encoderInputs>>

NextEscapeOnly == EscapeCSVValueReturn

SpecEscapeOnly == InitEscapeOnly /\ [][NextEscapeOnly]_vars

\* ------------------ specification: createCSV with quoteAll, then parseCSV

QuotedColumnNames == {<<"a">>, <<"1">>, <<" ">>, <<"\"">>}

\* values holding the delimiters, double quotes, CR, LF and outer whitespace
QuotedCellValues ==
  {<<>>, <<"a", " ">>, <<" ", ",">>, <<"\"">>, <<"\r", "\n">>, <<"\"", ",", "\n">>}

QuoteAllDelimiters == {<<",">>, <<" ">>}

LineEndings == {<<NEWLINE>>, <<CARRIAGE_RETURN, NEWLINE>>}

\* createCSV is about to be called with quoteAll on a rectangular record
\* list; its text will go to parseCSV with the same delimiter
InitQuoteAll ==
  /\ pc = "createCSV"
  /\ \E n \in 0..MaxColumns, r \in 0..MaxRows :
       /\ r * n <= MaxCells
       /\ \E names \in [1..n -> QuotedColumnNames],
             cells \in [1..r -> [1..n -> QuotedCellValues]] :
            /\ columns = Some(names)
            /\ data = [i \in 1..r |->
                         FromEntries([j \in 1..n |-> <<names[j], Str(cells[i][j])>>])]
  /\ \E d \in QuoteAllDelimiters, e \in LineEndings, t \in BOOLEAN :
       /\ createOptions = [delimiter |-> d, addHeader |-> TRUE, quoteAll |-> TRUE,
                           lineEnding |-> e]
       /\ options = [delimiter |-> d, trim |-> t, strict |-> TRUE]
  /\ csv = <<>>
  /\ parser = None
  /\ fed = <<>>
  /\ lines = <<>>
  /\ yielded = <<>>
  /\ result = None
  /\ error = None
  /\ argValue = Undefined

NextQuoteAll ==
  \/ CreateCSVCall
  \/ ParseCSVCall

SpecQuoteAll == InitQuoteAll /\ [][NextQuoteAll]_vars

\* ----------------------- specification: parseCSV of a text with a quoted field

\* what the text holds before its quoted field
QuotedPrefixes ==
  {<<>>, <<"a", "\n">>, <<"a", ",">>, <<"a", " ">>, <<"1", "\t", "a", "\n", "\t">>}

\* the values written between the quotes
QuotedContents ==
  {<<>>, <<"a">>, <<"\"">>, <<" ", "a", " ">>, <<",", "\n">>, <<"\t">>, <<"a", "\"", "\"">>}

\* the spaces and tabs written after the closing quote
QuotedPads == Strings({SPACE, TAB}, MaxPad)

\* what the text holds after them
QuotedSuffixes ==
  {<<>>, <<",">>, <<"\n">>, <<",", "a">>, <<"\n", "a">>, <<"\r", "\n", "1">>, <<"a">>}

QuotedOptions == [delimiter : {<<COMMA>>, <<SPACE>>, <<TAB>>}, trim : BOOLEAN, strict : BOOLEAN]

\* parseCSV is about to be called on a text that holds a field written
\* between quotes, followed by spaces and tabs
InitQuoted ==
  /\ pc = "parseCSV"
  /\ \E prefix \in QuotedPrefixes, content \in QuotedContents,
        pad \in QuotedPads, suffix \in QuotedSuffixes :
       csv = prefix \o EscapeCSVValue(Str(content), <<COMMA>>, TRUE) \o pad \o suffix
  /\ options \in QuotedOptions
  /\ parser = None
  /\ fed = <<>>
  /\ lines = <<>>
  /\ yielded = <<>>
  /\ result = None
  /\ error = None
  /\ data = <<>>
  /\ columns = None
  /\ createOptions = DefaultCreateOptions
  /\ argValue = Undefined

NextQuoted == ParseCSVCall

SpecQuoted == InitQuoted /\ [][NextQuoted]_vars

\* ------------------- specification: parseCSVStream fed chunks of several rows

RowChars == {"a", ",", "\n"}

\* the source of parseCSVStream delivers a chunk that may hold several rows
ParseCSVStreamRows ==
  /\ pc = "await"
  /\ \E chunk \in Strings(RowChars, MaxRowChunk) :
       /\ Len(fed) + Len(chunk) <= MaxRowFed
       /\ PushChunk(chunk)
  /\ UNCHANGED <<csv, options, lines, yielded, result, encoderInputs>>

NextRows ==
  \/ ParseCSVStreamStart
  \/ ParseCSVStreamRows
  \/ ParseCSVStreamYield
  \/ ParseCSVStreamEnd

SpecRows == Init /\ [][NextRows]_vars

\* ------------------------ specification: parseCSV or parseCSVStream

\* either parseCSV is about to be called on a text, or parseCSVStream is
\* about to be iterated
InitOutcome ==
  /\ \/ pc = "parseCSV" /\ csv \in Strings(ParseChars, MaxLen)
     \/ pc = "start" /\ csv = <<>>
  /\ options \in ParseOptions
  /\ parser = None
  /\ fed = <<>>
  /\ lines = <<>>
  /\ yielded = <<>>
  /\ result = None
  /\ error = None
  /\ data = <<>>
  /\ columns = None
  /\ createOptions = DefaultCreateOptions
  /\ argValue = Undefined

NextOutcome ==
  \/ ParseCSVCall
  \/ ParseCSVStreamStart
  \/ ParseCSVStreamRows
  \/ ParseCSVStreamYield
  \/ ParseCSVStreamEnd

SpecOutcome == InitOutcome /\ [][NextOutcome]_vars

\* -------------------- specification: several parseCSVStream parses at once
\*
\* pc, parser, fed, lines, yielded and error hold one value per parse;
\* lines[i] is the list of the chunks parse i has pulled.

Parses == 1..MaxParses

ConcurrentChunks == {<<"a", "\n">>, <<",", "a", "\n">>, <<"a">>}

\* the options every parse is started with
ConcurrentOptions == [delimiter : {<<COMMA>>}, trim : {TRUE}, strict : BOOLEAN]

InitConcurrent ==
  /\ pc = [i \in Parses |-> "start"]
  /\ parser = [i \in Parses |-> None]
  /\ fed = [i \in Parses |-> <<>>]
  /\ lines = [i \in Parses |-> <<>>]
  /\ yielded = [i \in Parses |-> <<>>]
  /\ error = [i \in Parses |-> None]
  /\ options \in ConcurrentOptions
  /\ csv = <<>>
  /\ result = None
  /\ data = <<>>
  /\ columns = None
  /\ createOptions = DefaultCreateOptions
  /\ argValue = Undefined

\* a module in which all calls share the parser and the queue of the first
OwnerOf_Shared(i) == 1

\* the parser and queue the generator of parse i works on: the locals its
\* own call created
OwnerOf(i) == i

\* the first next() on the generator of parse i
ConcurrentStart(i) ==
  /\ pc[i] = "start"
  /\ \E created \in {NewParser(options)} :
         /\ parser' = [parser EXCEPT ![OwnerOf(i)] = Some(created)]
         /\ error' = [error EXCEPT ![i] = created.thrown]
         /\ pc' = [pc EXCEPT ![i] = IF HasThrown(created) THEN "threw" ELSE "await"]
  /\ UNCHANGED <<csv, options, fed, lines, yielded, result, encoderInputs>>

\* the source of parse i delivers a chunk: parser.push(chunk)
ConcurrentChunk(i) ==
  /\ pc[i] = "await"
  /\ Len(lines[i]) < MaxPulls
  /\ \E chunk \in ConcurrentChunks :
       \E pushed \in {Push(parser[OwnerOf(i)][1], chunk)} :
         /\ parser' = [parser EXCEPT ![OwnerOf(i)] = Some(pushed)]
         /\ lines' = [lines EXCEPT ![i] = Append(@, chunk)]
         /\ fed' = [fed EXCEPT ![i] = @ \o chunk]
         /\ error' = [error EXCEPT ![i] = pushed.thrown]
         /\ pc' = [pc EXCEPT ![i] = IF HasThrown(pushed) THEN "threw"
                                    ELSE IF Len(pushed.queue) > 0 THEN "drain"
                                    ELSE "await"]
  /\ UNCHANGED <<csv, options, yielded, result, encoderInputs>>

\* yield queue.shift()! in either while loop of parse i
ConcurrentYield(i) ==
  /\ pc[i] \in {"drain", "flush"}
  /\ Len(parser[OwnerOf(i)][1].queue) > 0
  /\ yielded' = [yielded EXCEPT ![i] = Append(@, Head(parser[OwnerOf(i)][1].queue))]
  /\ parser' = [parser EXCEPT ![OwnerOf(i)] = Some([@[1] EXCEPT !.queue = Tail(@)])]
  /\ pc' = [pc EXCEPT ![i] = IF Len(parser[OwnerOf(i)][1].queue) > 1 THEN @
                             ELSE IF @ = "drain" THEN "await"
                             ELSE "done"]
  /\ UNCHANGED <<csv, options, fed, lines, result, error, encoderInputs>>

\* the source of parse i is exhausted: parser.finish()
ConcurrentEnd(i) ==
  /\ pc[i] = "await"
  /\ \E finished \in {Finish(parser[OwnerOf(i)][1])} :
         /\ parser' = [parser EXCEPT ![OwnerOf(i)] = Some(finished)]
         /\ error' = [error EXCEPT ![i] = finished.thrown]
         /\ pc' = [pc EXCEPT ![i] = IF HasThrown(finished) THEN "threw"
                                    ELSE IF Len(finished.queue) > 0 THEN "flush"
                                    ELSE "done"]
  /\ UNCHANGED <<csv, options, fed, lines, yielded, result, encoderInputs>>

NextConcurrent ==
  \E i \in Parses :
    \/ ConcurrentStart(i)
    \/ ConcurrentChunk(i)
    \/ ConcurrentYield(i)
    \/ ConcurrentEnd(i)

SpecConcurrent == InitConcurrent /\ [][NextConcurrent]_vars

\* ------------------------------------------------------------------- claims

\* C1: for every text and every way of cutting it into chunks, parseCSVStream
\* fed the chunks yields exactly the records parseCSV returns for the whole
\* text, and fails exactly when parseCSV fails.  (Stated for the texts that
\* hold a non-whitespace character; whitespace-only texts are the case of
\* C28.)
C1_StreamEqualsParseCSV ==
  (pc \in {"done", "threw"} /\ Len(Trim(fed)) > 0) =>
    LET whole == ParseCSV(fed, options)
    IN  IF whole.thrown = None
          THEN pc = "done" /\ yielded = whole.returned[1]
          ELSE pc = "threw"

\* C2: parseCSVFromLines, given the lines of a document without their line
\* terminators, yields the records parseCSV returns for the lines joined
\* with '\n'.
C2_LinesEqualJoinedParseCSV ==
  (/\ pc \in {"done", "threw"}
   /\ \A i \in 1..Len(lines) :
        ~Includes(lines[i], NEWLINE) /\ ~Includes(lines[i], CARRIAGE_RETURN)) =>
    LET whole == ParseCSV(Join(lines, <<NEWLINE>>), options)
    IN  whole.thrown = None => (pc = "done" /\ yielded = whole.returned[1])

\* ---- C3

\* the parse has ended, by a return or by a throw
ParseEnded == pc \in {"returned", "threw"}

\* the records parseCSV returned are the records rows, whose values are strings
SameRecords(parsed, rows) ==
  /\ Len(parsed) = Len(rows)
  /\ \A i \in 1..Len(rows) :
       /\ \A k \in 1..Len(rows[i]) : rows[i][k][2].type = "string"
       /\ {<<parsed[i][k][1], parsed[i][k][2]>> : k \in 1..Len(parsed[i])}
            = {<<rows[i][k][1], String(rows[i][k][2])>> : k \in 1..Len(rows[i])}

\* every value of data satisfies P
AllValues(P(_)) ==
  \A i \in 1..Len(data) : \A k \in 1..Len(data[i]) : P(String(data[i][k][2]))

\* a string free of the delimiter, double quotes, CR and LF
IsPlain(s) ==
  /\ ~IncludesString(s, createOptions.delimiter)
  /\ ~Includes(s, DOUBLE_QUOTE)
  /\ ~Includes(s, CARRIAGE_RETURN)
  /\ ~Includes(s, NEWLINE)

HasNoOuterWhitespace(s) == Trim(s) = s

IsNonEmpty(s) == Len(s) > 0

RoundTripHolds == result # None /\ SameRecords(result[1], data)

\* C3 as stated: for every rectangular record list whose values are strings
\* free of the delimiter, double quotes, CR and LF, every column list and
\* every one-character delimiter d, parseCSV(createCSV(data, columns,
\* {delimiter: d}), {delimiter: d}) equals data.
C3_RoundTrip ==
  (ParseEnded /\ AllValues(IsPlain)) => RoundTripHolds

\* what the amended C3 asks of the column list, the values and the delimiter
C3_Covered ==
  /\ AllValues(IsPlain)
  /\ AllValues(HasNoOuterWhitespace)
  /\ Len(columns[1]) >= 1
  /\ \A j \in 1..Len(columns[1]) :
       /\ IsNonEmpty(columns[1][j])
       /\ HasNoOuterWhitespace(columns[1][j])
       /\ \A k \in 1..Len(columns[1]) : columns[1][k] = columns[1][j] => k = j
  /\ (Len(columns[1]) >= 2 \/ AllValues(IsNonEmpty))
  /\ createOptions.delimiter \notin {<<DOUBLE_QUOTE>>, <<NEWLINE>>}

\* C3 amended: the round trip returns data when, moreover, the column list is
\* non-empty with distinct, non-empty names free of leading and trailing
\* whitespace, the values have no leading or trailing whitespace, there are
\* at least two columns or no empty value, and d is neither '"' nor LF.
C3_RoundTripAmended ==
  (ParseEnded /\ C3_Covered) => RoundTripHolds

\* two records of two columns with an empty value and a name that had to be
\* quoted came back unchanged
C3_Witness ==
  /\ pc = "returned"
  /\ C3_Covered
  /\ RoundTripHolds
  /\ Len(data) = 2
  /\ columns[1] = <<<<"a", ",">>, <<"b">>>>
  /\ \E k \in 1..2 : Len(String(data[1][k][2])) = 0
  /\ \E k \in 1..2 : String(data[2][k][2]) = <<"b">>
  /\ createOptions.delimiter = <<",">>

\* ---- C4

\* the document of C4 parsed to exactly one record holding String(argValue)
C4_Recovered ==
  result = Some(<< <<<<columns[1][1], String(argValue)>>>> >>)

\* C4 as stated: for every value v, parsing the one-column document whose
\* single data line is escapeCSVValue(v) yields exactly one record whose
\* value is String(v).
C4_EscapeThenParse ==
  ParseEnded => C4_Recovered

\* the values the amended C4 covers
C4_Covered ==
  /\ ~IsNullish(argValue)
  /\ IsNonEmpty(String(argValue))
  /\ \/ HasNoOuterWhitespace(String(argValue))
     \/ Includes(String(argValue), COMMA)
     \/ Includes(String(argValue), DOUBLE_QUOTE)
     \/ Includes(String(argValue), NEWLINE)
     \/ Includes(String(argValue), CARRIAGE_RETURN)

\* C4 amended: the value is recovered when v is neither null nor undefined
\* and its string form is non-empty and either has no leading or trailing
\* whitespace or holds a comma, a double quote, CR or LF.
C4_EscapeThenParseAmended ==
  (ParseEnded /\ C4_Covered) => C4_Recovered

\* a value with a comma, a quote and a line feed was escaped and recovered
C4_Witness ==
  /\ pc = "returned"
  /\ C4_Recovered
  /\ String(argValue) = <<",", "\"", "\n">>

\* ---- rows and records of a parseCSV call, shared by C5 to C10

\* parseCSV built a parser: the text holds a non-whitespace character
ParserRan == ParseEnded /\ parser # None

\* the rows the parser completed, the header row first, with blank rows
RowLog == parser[1].rowLog

\* the records the parser emitted, whether or not the call returned them
Emitted == parser[1].queue

\* the accepted header names; empty while no header row was accepted
HeaderNamesOf(p) == IF p.headers = None THEN <<>> ELSE p.headers[1]

IsBlank(s) == \A i \in 1..Len(s) : IsWhitespace(s[i])

\* field k of a logged row counts as populated under the trim setting
Populated(row, k) ==
  IF options.trim /\ ~row.quoted[k]
    THEN ~IsBlank(row.fields[k])
    ELSE Len(row.fields[k]) > 0

\* the value field k of a logged row gives its record
ValueOf(row, k) ==
  IF options.trim /\ ~row.quoted[k] THEN Trim(row.fields[k]) ELSE row.fields[k]

\* the row has a populated field beyond the first h
HasPopulatedOverflow(row, h) ==
  \E k \in (h + 1)..Len(row.fields) : Populated(row, k)

\* the number of records emitted once row i of the log was processed
RecordsAfter(i) ==
  IF i < Len(RowLog) THEN RowLog[i + 1].queued ELSE Len(Emitted)

GaveRecord(i) == RecordsAfter(i) = RowLog[i].queued + 1

GaveNothing(i) == RecordsAfter(i) = RowLog[i].queued

\* the record row i gave
RecordOf(i) == Emitted[RowLog[i].queued + 1]

\* the call ended with the error of a data row
IsRowError == error # None /\ error[1].message[1] = "CSV row "

\* the call ended with an error of the header row
IsHeaderError ==
  /\ error # None
  /\ error[1].message[1] \in
       {"CSV header row contains empty column name(s) at position(s): ",
        "CSV header row contains duplicate column name(s): "}

\* row i of the log is the one the parse stopped at with a row error
RaisedAt(i) == IsRowError /\ i = Len(RowLog)

\* record rec holds, under each header name, the field of its row at the
\* name's position, or the empty string where the row is too short
HasRowValues(rec, row, names) ==
  \A j \in 1..Len(names) :
    {rec[k][2] : k \in {k \in 1..Len(rec) : rec[k][1] = names[j]}} =
      {IF j <= Len(row.fields) THEN ValueOf(row, j) ELSE <<>>}

\* s cut at every c
RECURSIVE SplitAt(_, _)
SplitAt(s, c) ==
  IF ~Includes(s, c) THEN <<s>>
  ELSE LET i == CHOOSE i \in 1..Len(s) : s[i] = c /\ \A j \in 1..(i - 1) : s[j] # c
       IN  <<SubSeq(s, 1, i - 1)>> \o SplitAt(SubSeq(s, i + 1, Len(s)), c)

\* the fields of row i of a text without quotes
TextRow(i) == SplitAt(SplitAt(csv, NEWLINE)[i], COMMA)

\* ---- C5

\* C5 as stated: every record parseCSV emits has exactly the header names as
\* its keys, in header order, whatever the number of raw fields of its row:
\* missing trailing fields are empty strings, surplus fields are dropped.
C5_KeysInHeaderOrder ==
  ParserRan =>
    \A i \in 1..Len(RowLog) :
      /\ GaveRecord(i) \/ GaveNothing(i)
      /\ GaveRecord(i) =>
           /\ Keys(RecordOf(i)) = HeaderNamesOf(parser[1])
           /\ HasRowValues(RecordOf(i), RowLog[i], HeaderNamesOf(parser[1]))

\* keys is names reordered as a JavaScript object enumerates its own string
\* keys: the array-index names first, ascending, then the others as in names
IsPropertyOrderOf(keys, names) ==
  /\ Len(keys) = Len(names)
  /\ {keys[k] : k \in 1..Len(keys)} = {names[j] : j \in 1..Len(names)}
  /\ \A a, b \in 1..Len(keys) :
       a < b =>
         \/ IsArrayIndex(keys[a]) /\ ~IsArrayIndex(keys[b])
         \/ /\ IsArrayIndex(keys[a]) /\ IsArrayIndex(keys[b])
            /\ IndexValue(keys[a]) < IndexValue(keys[b])
         \/ /\ ~IsArrayIndex(keys[a]) /\ ~IsArrayIndex(keys[b])
            /\ \E i, j \in 1..Len(names) :
                 i < j /\ names[i] = keys[a] /\ names[j] = keys[b]

\* C5 amended: every record parseCSV emits has exactly the header names as
\* its keys, in header order except that names that are array indexes come
\* first in ascending numeric order, whatever the number of raw fields of
\* its row: missing trailing fields are empty strings, surplus fields are
\* dropped.
C5_KeysAreHeaderNames ==
  ParserRan =>
    \A i \in 1..Len(RowLog) :
      /\ GaveRecord(i) \/ GaveNothing(i)
      /\ GaveRecord(i) =>
           /\ i > 1
           /\ IsPropertyOrderOf(Keys(RecordOf(i)), HeaderNamesOf(parser[1]))
           /\ HasRowValues(RecordOf(i), RowLog[i], HeaderNamesOf(parser[1]))

\* a row one field short of the header a,1 gave a record with both keys, the
\* index name first and the missing field empty
C5_Witness ==
  /\ pc = "returned"
  /\ parser # None
  /\ HeaderNamesOf(parser[1]) = <<<<"a">>, <<"1">>>>
  /\ Len(RowLog) = 2 /\ Len(RowLog[2].fields) = 1 /\ GaveRecord(2)
  /\ result = Some(<< <<<<<<"1">>, <<>>>>, <<<<"a">>, <<"a">>>>>> >>)

\* ---- C6

\* C6: in strict mode a data row with more raw fields than headers and a
\* populated overflow field makes parseCSV fail with SyntaxError 'CSV row R
\* has X extra field(s): expected H column(s), found N', R being the row's
\* position counting the header row and every blank row before it, H the
\* header count, N the row's raw field count and X = N - H.
C6_OverflowError ==
  ParserRan =>
    \A R \in 2..Len(RowLog) :
      \A H \in {Len(HeaderNamesOf(parser[1]))}, N \in {Len(RowLog[R].fields)} :
        (options.strict /\ N > H /\ HasPopulatedOverflow(RowLog[R], H)) =>
          /\ result = None
          /\ error = Some(SyntaxError(
               <<"CSV row ", Num(R), " has ", Num(N - H),
                 " extra field(s): expected ", Num(H), " column(s), found ", Num(N)>>))
          /\ ~Includes(csv, DOUBLE_QUOTE) => TextRow(R) = RowLog[R].fields

\* the third row, after the header and a blank row, had a populated second
\* field under a one-name header
C6_Witness ==
  /\ pc = "threw"
  /\ csv = <<"a", "\n", "\n", ",", "a">>
  /\ options.strict
  /\ Len(RowLog) = 3 /\ GaveNothing(2)
  /\ error = Some(SyntaxError(
       <<"CSV row ", "3", " has ", "1", " extra field(s): expected ", "1",
         " column(s), found ", "2">>))

\* ---- C7

\* C7: a data row whose fields beyond the header count are all empty raises
\* no error, strict or not, and with strict off no overflow field raises;
\* in both cases the surplus fields are dropped and the record is emitted.
C7_NoOverflowError ==
  ParserRan =>
    \A i \in 2..Len(RowLog) :
      \A H \in {Len(HeaderNamesOf(parser[1]))} :
        (/\ Len(RowLog[i].fields) > H
         /\ \/ ~options.strict
            \/ \A k \in (H + 1)..Len(RowLog[i].fields) : Len(RowLog[i].fields[k]) = 0) =>
          /\ ~RaisedAt(i)
          /\ GaveRecord(i)
          /\ Len(RecordOf(i)) = H
          /\ HasRowValues(RecordOf(i), RowLog[i], HeaderNamesOf(parser[1]))

\* in strict mode the row a,, under the header a gave the record {a: 'a'}
C7_Witness ==
  /\ pc = "returned"
  /\ options.strict
  /\ csv = <<"a", "\n", "a", ",", ",">>
  /\ Len(RowLog[2].fields) = 3
  /\ result = Some(<< <<<<<<"a">>, <<"a">>>>>> >>)

\* ---- C8

\* C8 as stated: a data row of a single raw field gives no record if the
\* field is empty or, with trim on, all whitespace; a data row of two or
\* more raw fields gives a record even if all are empty; with trim off a
\* single whitespace-only field gives a record.
C8_BlankRows ==
  ParserRan =>
    \A i \in 2..Len(RowLog) :
      \A row \in {RowLog[i]} :
        /\ (/\ Len(row.fields) = 1
            /\ \/ Len(row.fields[1]) = 0
               \/ options.trim /\ IsBlank(row.fields[1])) => GaveNothing(i)
        /\ (Len(row.fields) >= 2 /\ ~RaisedAt(i)) => GaveRecord(i)
        /\ (/\ ~options.trim
            /\ Len(row.fields) = 1
            /\ Len(row.fields[1]) > 0
            /\ IsBlank(row.fields[1])) => GaveRecord(i)

\* C8 amended: a data row of a single raw field gives no record if the field
\* is empty or, with trim on, unquoted and all whitespace; a single quoted
\* field that is not empty gives a record, as does a data row of two or more
\* raw fields that raises no overflow error, even if all its fields are
\* empty; with trim off a single whitespace-only field gives a record.
C8_BlankRowsUnquoted ==
  ParserRan =>
    \A i \in 2..Len(RowLog) :
      \A row \in {RowLog[i]} :
        /\ (/\ Len(row.fields) = 1
            /\ \/ Len(row.fields[1]) = 0
               \/ options.trim /\ ~row.quoted[1] /\ IsBlank(row.fields[1])) => GaveNothing(i)
        /\ (/\ Len(row.fields) = 1
            /\ row.quoted[1]
            /\ Len(row.fields[1]) > 0) => GaveRecord(i)
        /\ (Len(row.fields) >= 2 /\ ~RaisedAt(i)) => GaveRecord(i)
        /\ (/\ ~options.trim
            /\ Len(row.fields) = 1
            /\ Len(row.fields[1]) > 0
            /\ IsBlank(row.fields[1])) => GaveRecord(i)

\* with trim on, a row of one space gave nothing and the row after it, of two
\* empty fields, gave a record
C8_Witness ==
  /\ pc = "returned"
  /\ options.trim
  /\ csv = <<"a", "\n", " ", "\n", ",">>
  /\ GaveNothing(2)
  /\ GaveRecord(3)
  /\ result = Some(<< <<<<<<"a">>, <<>>>>>> >>)

\* ---- C9

\* the number of line feeds among the first n characters of the text
RECURSIVE LineFeedsBefore(_)
LineFeedsBefore(n) ==
  IF n = 0 THEN 0
  ELSE LineFeedsBefore(n - 1) + (IF csv[n] = NEWLINE THEN 1 ELSE 0)

Unterminated(R) ==
  Some(SyntaxError(<<"CSV contains unterminated quoted field at row ", Num(R)>>))

\* C9: if the input ends while a quoted field is open, and no header or
\* overflow error was raised before, parseCSV returns nothing and fails with
\* SyntaxError 'CSV contains unterminated quoted field at row R', R being
\* the number of the row the field began in; line terminators inside the
\* open quotes do not advance R.
C9_UnterminatedQuote ==
  ParserRan =>
    /\ parser[1].inQuotes =>
         result = None /\ error = Unterminated(Len(RowLog) + 1)
    /\ \A k \in 1..Len(csv) :
         (/\ csv[k] = DOUBLE_QUOTE
          /\ \A j \in 1..Len(csv) : csv[j] = DOUBLE_QUOTE => j = k
          /\ k = 1 \/ csv[k - 1] \in {COMMA, NEWLINE}) =>
           /\ result = None
           /\ \/ IsHeaderError
              \/ IsRowError
              \/ error = Unterminated(LineFeedsBefore(k) + 1)

\* the quote opened in the second row and a line feed followed inside it
C9_Witness ==
  /\ pc = "threw"
  /\ csv = <<"a", "\n", "\"", "a", "\n">>
  /\ parser[1].inQuotes
  /\ error = Unterminated(2)

\* ---- C10

\* the numbers of S in ascending order
RECURSIVE Ascending(_)
Ascending(S) ==
  IF S = {} THEN <<>>
  ELSE LET least == CHOOSE x \in S : \A y \in S : x <= y
       IN  <<least>> \o Ascending(S \ {least})

\* the positions of the first completed row whose name is empty
EmptyNamePositions ==
  {j \in 1..Len(RowLog[1].fields) : ~Populated(RowLog[1], j)}

\* C10: for a text with a non-whitespace character, if a name of the first
\* completed row is empty, after trimming the unquoted names when trim is
\* on, parseCSV fails with SyntaxError 'CSV header row contains empty column
\* name(s) at position(s): ...' listing every 1-based position of an empty
\* name in ascending order; the check comes before the duplicate-name check
\* and applies whether or not a data row follows.
C10_EmptyHeaderNames ==
  (ParserRan /\ Len(RowLog) >= 1) =>
    /\ ~Includes(csv, DOUBLE_QUOTE) => TextRow(1) = RowLog[1].fields
    /\ EmptyNamePositions # {} =>
         \A positions \in {Ascending(EmptyNamePositions)} :
           /\ result = None
           /\ error = Some(SyntaxError(
                <<"CSV header row contains empty column name(s) at position(s): ">>
                \o Join([n \in 1..Len(positions) |-> <<Num(positions[n])>>],
                        <<",", " ">>)))

\* the header ,a,a, has the empty names 1 and 4 and the name a twice; no data
\* row follows
C10_Witness ==
  /\ pc = "threw"
  /\ csv = <<",", "a", ",", "a", ",">>
  /\ Len(RowLog) = 1
  /\ error = Some(SyntaxError(
       <<"CSV header row contains empty column name(s) at position(s): ",
         "1", ",", " ", "4">>))

\* ---- C11

\* the names of the first completed row as the header check compares them
ComparedNames == [j \in 1..Len(RowLog[1].fields) |-> ValueOf(RowLog[1], j)]

\* the positions at which a name occurs for the second time
SecondOccurrences ==
  {j \in 1..Len(ComparedNames) :
     Cardinality({i \in 1..(j - 1) : ComparedNames[i] = ComparedNames[j]}) = 1}

\* C11: if the header row has no empty name and some name occurs more than
\* once, names compared after trimming the unquoted ones, parseCSV fails with
\* SyntaxError 'CSV header row contains duplicate column name(s): ...' naming
\* each repeated name once, in the order in which the names are first seen
\* repeated.
C11_DuplicateHeaderNames ==
  (ParserRan /\ Len(RowLog) >= 1 /\ EmptyNamePositions = {}
     /\ SecondOccurrences # {}) =>
    \A positions \in {Ascending(SecondOccurrences)} :
      /\ result = None
      /\ error = Some(SyntaxError(
           <<"CSV header row contains duplicate column name(s): ">>
           \o Join([n \in 1..Len(positions) |-> ComparedNames[positions[n]]],
                   <<",", " ">>)))

\* the header a,1,1,a lists the name 1 before the name a
C11_Witness ==
  /\ pc = "threw"
  /\ csv = <<"a", ",", "1", ",", "1", ",", "a">>
  /\ error = Some(SyntaxError(
       <<"CSV header row contains duplicate column name(s): ",
         "1", ",", " ", "a">>))

\* ---- C12

\* the records a parseCSVStream run has emitted: those yielded and those
\* still queued
StreamEmitted == yielded \o parser[1].queue

\* what C12 asks of every state of a run
C12_EveryState ==
  parser # None =>
    /\ parser[1].headerChecks = (IF Len(RowLog) >= 1 THEN 1 ELSE 0)
    /\ Len(RowLog) <= 1 => Len(StreamEmitted) = 0
    /\ Len(RowLog) >= 2 => parser[1].headers # None
    /\ Len(StreamEmitted) > 0 => parser[1].headers # None
    /\ IsRowError => parser[1].headers # None

\* what C12 asks of every step of a run
C12_EveryStep ==
  (parser # None /\ parser' # None) =>
    /\ parser[1].headers # None => parser'[1].headers = parser[1].headers
    /\ (parser[1].headers = None /\ parser'[1].headers # None) =>
         /\ Len(parser[1].rowLog) = 0
         /\ Len(parser'[1].rowLog) >= 1
         /\ parser'[1].headers[1] =
              [j \in 1..Len(parser'[1].rowLog[1].fields) |->
                 ValueOf(parser'[1].rowLog[1], j)]

\* C12: in every parse, for every input and chunking, header validation runs
\* exactly once, when the first row completes, before any record is emitted
\* and before any overflow error can be raised; once validation has
\* succeeded the header list never changes.
C12_HeaderValidatedOnce == []C12_EveryState /\ [][C12_EveryStep]_vars

\* a run over three rows ended with two records yielded and one validation
C12_Witness ==
  /\ pc = "done"
  /\ Len(RowLog) = 3
  /\ Len(yielded) = 2
  /\ parser[1].headerChecks = 1
  /\ parser[1].headers = Some(<<<<"a">>>>)

\* ---- C13

DelimiterError(delimiter) ==
  Some(RangeError(<<"CSV delimiter must be a single character, got \"">>
                  \o delimiter \o <<"\"">>))

\* C13: createCSV and parseCSV fail with RangeError 'CSV delimiter must be a
\* single character, got "<delimiter>"' whenever the delimiter option is not
\* exactly one character long, for every input, an empty record list with an
\* empty column list and an empty or whitespace-only text included.
C13_DelimiterError ==
  /\ (columns # None /\ pc # "createCSV" /\ Len(createOptions.delimiter) # 1) =>
       (pc = "threw" /\ error = DelimiterError(createOptions.delimiter))
  /\ (columns = None /\ ParseEnded /\ Len(options.delimiter) # 1) =>
       (pc = "threw" /\ result = None /\ error = DelimiterError(options.delimiter))

\* ---- C14

\* s with every double quote written twice
RECURSIVE Doubled(_)
Doubled(s) ==
  IF Len(s) = 0 THEN <<>>
  ELSE (IF Head(s) = DOUBLE_QUOTE THEN <<DOUBLE_QUOTE, DOUBLE_QUOTE>> ELSE <<Head(s)>>)
         \o Doubled(Tail(s))

\* s has to be quoted: it holds the delimiter, a double quote, LF or CR
NeedsQuotes(s, delimiter) ==
  \E i \in 1..Len(s) : s[i] \in {delimiter[1], DOUBLE_QUOTE, NEWLINE, CARRIAGE_RETURN}

\* C14: escapeCSVValue returns the empty string for null and undefined;
\* otherwise, for the string form s of the value, it returns s between one
\* pair of double quotes with every double quote in it doubled exactly when
\* quoteAll is set or s holds the delimiter, a double quote, LF or CR, and s
\* unchanged in every other case.
C14_EscapeCSVValue ==
  pc = "escaped" =>
    IF IsNullish(argValue) THEN csv = <<>>
    ELSE IF createOptions.quoteAll \/ NeedsQuotes(String(argValue), createOptions.delimiter)
      THEN csv = <<DOUBLE_QUOTE>> \o Doubled(String(argValue)) \o <<DOUBLE_QUOTE>>
      ELSE csv = String(argValue)

\* without quoteAll, the value of a quote and a carriage return came back
\* quoted with the quote doubled
C14_Witness ==
  /\ pc = "escaped"
  /\ ~createOptions.quoteAll
  /\ argValue = Str(<<"\"", "\r">>)
  /\ csv = <<"\"", "\"", "\"", "\r", "\"">>

\* ---- C15

\* s ends with suffix
EndsWith(s, suffix) ==
  /\ Len(s) >= Len(suffix)
  /\ SubSeq(s, Len(s) - Len(suffix) + 1, Len(s)) = suffix

\* the column list createCSV writes: the one given or the inferred one
WrittenColumns == IF columns = None THEN InferColumns(data) ELSE columns[1]

\* the cell of record row under column col is written as the empty text
IsEmptyCell(row, col) ==
  \A k \in 1..Len(row) :
    row[k][1] = col =>
      \/ IsNullish(row[k][2])
      \/ String(row[k][2]) = <<>> /\ ~createOptions.quoteAll

\* the line of the last record is empty and is not the first line
EmptyLastLine ==
  /\ Len(data) >= 1
  /\ createOptions.addHeader \/ Len(data) >= 2
  /\ Len(WrittenColumns) <= 1
  /\ \A j \in 1..Len(WrittenColumns) : IsEmptyCell(data[Len(data)], WrittenColumns[j])

EscapedText(s) ==
  IF createOptions.quoteAll \/ NeedsQuotes(s, createOptions.delimiter)
    THEN <<DOUBLE_QUOTE>> \o Doubled(s) \o <<DOUBLE_QUOTE>>
    ELSE s

\* the cell of record row under column col: empty for a null, undefined or
\* missing property
CellText(row, col) ==
  IF \E k \in 1..Len(row) : row[k][1] = col /\ ~IsNullish(row[k][2])
    THEN EscapedText(String(row[CHOOSE k \in 1..Len(row) : row[k][1] = col][2]))
    ELSE <<>>

\* the lines of the document over the columns cols
LinesOver(cols) ==
  (IF createOptions.addHeader
     THEN <<Join([j \in 1..Len(cols) |-> EscapedText(cols[j])], createOptions.delimiter)>>
     ELSE <<>>)
  \o [i \in 1..Len(data) |->
        Join([j \in 1..Len(cols) |-> CellText(data[i], cols[j])], createOptions.delimiter)]

\* the text C16 describes for the columns cols
TextOver(cols) ==
  IF Len(cols) = 0 /\ Len(data) = 0 THEN <<>>
  ELSE Join(LinesOver(cols), createOptions.lineEnding)

\* C16: createCSV returns the empty string when there are no columns and no
\* records, the header line alone when addHeader is set and there are no
\* records, and otherwise the header line (iff addHeader) followed by one
\* line per record in input order, joined by lineEnding, each line being the
\* escaped cells in column order joined by the delimiter, with null,
\* undefined and missing fields as empty cells and properties outside the
\* column list ignored.
C16_CreateCSVText ==
  (pc = "created" /\ columns # None) => csv = TextOver(columns[1])

\* under the columns a,c a record with the unlisted property b and a null a
\* gave the line of two empty cells, after a record whose a had to be quoted
C16_Witness ==
  /\ pc = "created"
  /\ columns = Some(<<<<"a">>, <<"c">>>>)
  /\ createOptions = DefaultCreateOptions
  /\ Len(data) = 2
  /\ Keys(data[2]) = <<<<"a">>, <<"b">>>>
  /\ data[2][1][2] = Null
  /\ csv = <<"a", ",", "c", "\n", "\"", ",", "\"", ",", "\n", ",">>

\* ---- C17

\* the keys of all records, record after record
AllKeys == Concat([i \in 1..Len(data) |-> Keys(data[i])])

\* cols holds every key of the records once, in the order of first appearance
IsFirstSeenOrder(cols) ==
  /\ {cols[j] : j \in 1..Len(cols)} = {AllKeys[n] : n \in 1..Len(AllKeys)}
  /\ \A a, b \in 1..Len(cols) :
       a < b =>
         \E n \in 1..Len(AllKeys) :
           /\ AllKeys[n] = cols[a]
           /\ \A m \in 1..n : AllKeys[m] # cols[b]

\* C17: when createCSV is called without a column list, the columns are the
\* union of the keys of all records, each key once, ordered by first
\* appearance over the records in input order and the keys of each record in
\* its own order; a record lacking a column gets an empty cell for it.
C17_InferredColumns ==
  (pc = "created" /\ columns = None) =>
    \E k \in 0..Cardinality(RecordKeys) :
      \E cols \in [1..k -> RecordKeys] :
        IsFirstSeenOrder(cols) /\ csv = TextOver(cols)

\* the records {b} and {a, b} gave the columns b,a and the first record an
\* empty cell under a
C17_Witness ==
  /\ pc = "created"
  /\ columns = None
  /\ createOptions = DefaultCreateOptions
  /\ Len(data) = 2
  /\ Keys(data[1]) = <<<<"b">>>>
  /\ Keys(data[2]) = <<<<"a">>, <<"b">>>>
  /\ csv = <<"b", ",", "a", "\n", "\"", ",", "\"", ",", "\n", ",">>

\* ---- C18

\* the chunks C18 describes: every line over the columns, the header line
\* first iff addHeader, each followed by the line ending
ChunksOver(cols) ==
  [k \in 1..Len(LinesOver(cols)) |-> LinesOver(cols)[k] \o createOptions.lineEnding]

\* C18: createCSVStream yields, in this order, the header line (iff
\* addHeader) and then one chunk per source record in source order, each
\* chunk being one encoded line followed by lineEnding; createCSVAsync
\* returns the concatenation of exactly those chunks, so its result ends
\* with lineEnding whenever a chunk was produced.
C18_StreamChunks ==
  pc \in {"rows", "joined"} =>
    \A expected \in {ChunksOver(columns[1])} :
      /\ Len(yielded) <= Len(expected)
      /\ yielded = SubSeq(expected, 1, Len(yielded))
      /\ pc = "rows" => Len(yielded) >= (IF createOptions.addHeader THEN 1 ELSE 0)
      /\ pc = "joined" =>
           /\ yielded = expected
           /\ csv = Concat(expected)
           /\ Len(expected) >= 1 => EndsWith(csv, createOptions.lineEnding)

\* the header chunk and the chunks of two records were yielded and joined,
\* with CRLF line endings
C18_Witness ==
  /\ pc = "joined"
  /\ createOptions.addHeader
  /\ createOptions.lineEnding = <<CARRIAGE_RETURN, NEWLINE>>
  /\ columns = Some(<<<<"a">>, <<"c">>>>)
  /\ Len(yielded) = 3
  /\ yielded[3] = <<"\"", ",", "\"", ",", "\r", "\n">>
  /\ csv = <<"a", ",", "c", "\r", "\n", ",", "\r", "\n", "\"", ",", "\"", ",", "\r", "\n">>

\* ---- C19

\* v is raw without its leading and trailing whitespace
IsStrippedOf(v, raw) ==
  \E a, b \in 0..Len(raw) :
    /\ a + b <= Len(raw)
    /\ v = SubSeq(raw, a + 1, Len(raw) - b)
    /\ \A i \in 1..a : IsWhitespace(raw[i])
    /\ \A i \in (Len(raw) - b + 1)..Len(raw) : IsWhitespace(raw[i])
    /\ Len(v) > 0 => ~IsWhitespace(v[1]) /\ ~IsWhitespace(v[Len(v)])

\* v is what C19 says is returned for field k of a logged row
IsReturnedFor(v, row, k) ==
  IF options.trim /\ ~row.quoted[k]
    THEN IsStrippedOf(v, row.fields[k])
    ELSE v = row.fields[k]

\* the values record rec holds under the name
ValuesUnder(rec, name) == {rec[k][2] : k \in {k \in 1..Len(rec) : rec[k][1] = name}}

\* C19: with trim on every unquoted header name and field value is returned
\* with its leading and trailing whitespace removed while every quoted name
\* or value is returned untrimmed; with trim off all names and values are
\* returned unmodified.
C19_Trim ==
  (ParserRan /\ parser[1].headers # None) =>
    \A names \in {parser[1].headers[1]} :
      /\ ~Includes(csv, DOUBLE_QUOTE) =>
           \A i \in 1..Len(RowLog) : RowLog[i].fields = TextRow(i)
      /\ Len(names) = Len(RowLog[1].fields)
      /\ \A j \in 1..Len(names) : IsReturnedFor(names[j], RowLog[1], j)
      /\ \A i \in 2..Len(RowLog) :
           GaveRecord(i) =>
             \A j \in 1..Len(names) :
               j <= Len(RowLog[i].fields) =>
                 \A v \in ValuesUnder(RecordOf(i), names[j]) :
                   IsReturnedFor(v, RowLog[i], j)
      /\ \A inner \in Strings(ParseChars \ {DOUBLE_QUOTE}, 2) :
           (Len(inner) > 0
            /\ csv = <<"a", NEWLINE, DOUBLE_QUOTE>> \o inner \o <<DOUBLE_QUOTE>>) =>
             result = Some(<< <<<<<<"a">>, inner>>>> >>)

\* under the padded name ' a' the padded value ' 1' came back as {a: '1'}
C19_Witness ==
  /\ pc = "returned"
  /\ options.trim
  /\ csv = <<" ", "a", "\n", " ", "1">>
  /\ result = Some(<< <<<<<<"a">>, <<"1">>>>>> >>)

\* ---- C20

\* the row terminators of a string: every '\r', and every '\n' that does not
\* follow a '\r'
Terminators(chunk) ==
  Cardinality({i \in 1..Len(chunk) :
                 \/ chunk[i] = CARRIAGE_RETURN
                 \/ chunk[i] = NEWLINE /\ (i = 1 \/ chunk[i - 1] # CARRIAGE_RETURN)})

\* what C20 asks of a step that pushes a string without quotes into a parser
\* that takes it without a throw
C20_PushStep ==
  (/\ pc = "await"
   /\ fed' # fed
   /\ ~HasThrown(parser'[1])) =>
    \A chunk \in {SubSeq(fed', Len(fed) + 1, Len(fed'))} :
      ~Includes(chunk, DOUBLE_QUOTE) =>
        IF parser[1].inQuotes
          THEN /\ parser'[1].rowLog = parser[1].rowLog
               /\ parser'[1].currentRowNumber = parser[1].currentRowNumber
               /\ parser'[1].currentField = parser[1].currentField \o chunk
               /\ parser'[1].inQuotes
          ELSE /\ Len(parser'[1].rowLog) = Len(parser[1].rowLog) + Terminators(chunk)
               /\ parser'[1].currentRowNumber =
                    parser[1].currentRowNumber + Terminators(chunk)

\* C20: outside quotes each of '\n', a lone '\r' and the pair '\r\n' ends
\* exactly one row and advances the row counter by one, a CRLF pair within
\* one input string never counting as two rows; inside an open quoted field
\* these characters are appended to the field verbatim, end no row and leave
\* the row counter unchanged.
C20_RowTerminators == [][C20_PushStep]_vars

\* after a header ended by '\r\n' the counter stands at 2, and a '\r' pushed
\* into the open quoted field of the second row is held in the field
C20_Witness ==
  /\ pc = "await"
  /\ parser[1].currentRowNumber = 2
  /\ Len(RowLog) = 1
  /\ parser[1].inQuotes
  /\ fed = <<"a", "\r", "\n", "\"", "\r">>
  /\ parser[1].currentField = <<"\r">>

\* ---- C21

\* what C21 asks of the options and the column list
C21_Covered ==
  /\ createOptions.quoteAll
  /\ options.delimiter = createOptions.delimiter
  /\ createOptions.delimiter \notin {<<DOUBLE_QUOTE>>, <<CARRIAGE_RETURN>>, <<NEWLINE>>}
  /\ createOptions.lineEnding \in {<<NEWLINE>>, <<CARRIAGE_RETURN, NEWLINE>>}
  /\ Len(columns[1]) >= 2
  /\ \A j \in 1..Len(columns[1]) :
       /\ IsNonEmpty(columns[1][j])
       /\ \A k \in 1..Len(columns[1]) : columns[1][k] = columns[1][j] => k = j

\* C21: with quoteAll set, createCSV followed by parseCSV with the same
\* delimiter returns the original records for every rectangular record list
\* of string values (values holding the delimiter, double quotes, CR, LF or
\* outer whitespace included), given at least two column names, all distinct
\* and non-empty, a delimiter other than '"', CR and LF, and lineEnding '\n'
\* or '\r\n'.
C21_QuoteAllRoundTrip ==
  (ParseEnded /\ C21_Covered) => RoundTripHolds

\* two records under the columns ' ' and '"', written with the delimiter
\* ' ' and CRLF line endings, came back unchanged: among their values a
\* quote, a CRLF pair, the delimiter and an empty string
C21_Witness ==
  /\ pc = "returned"
  /\ C21_Covered
  /\ RoundTripHolds
  /\ createOptions.delimiter = <<" ">>
  /\ createOptions.lineEnding = <<CARRIAGE_RETURN, NEWLINE>>
  /\ columns[1] = <<<<" ">>, <<"\"">>>>
  /\ Len(data) = 2
  /\ {String(data[i][k][2]) : i \in 1..2, k \in 1..2} =
       {<<"\"">>, <<"\r", "\n">>, <<" ", ",">>, <<>>}

\* ---- C22

\* the string a step of parseCSVStream pushes into the parser
PushedChunk == SubSeq(fed', Len(fed) + 1, Len(fed'))

\* the parser parseCSVStream would hold had it pushed text as a single chunk
PushedWhole(text) == Push(NewParser(options), text)

\* the last character pulled is a double quote met inside an open quoted
\* field at the very end of a chunk, everything before it having been
\* consumed as a single push consumes it
QuoteEndsChunk ==
  /\ pc = "await"
  /\ Len(fed) > 0
  /\ fed[Len(fed)] = DOUBLE_QUOTE
  /\ \E before \in {PushedWhole(SubSeq(fed, 1, Len(fed) - 1))} :
       /\ ~HasThrown(before)
       /\ before.inQuotes
       /\ parser[1] = [before EXCEPT !.inQuotes = FALSE]

\* what C22 asks of the step that pushes the chunk beginning with the second
\* quote of the pair
C22_PushStep ==
  (/\ QuoteEndsChunk
   /\ fed' # fed
   /\ PushedChunk[1] = DOUBLE_QUOTE) =>
    \E before \in {PushedWhole(SubSeq(fed, 1, Len(fed) - 1))} :
      parser'[1] = Push([before EXCEPT !.currentField = Append(@, DOUBLE_QUOTE)],
                        Tail(PushedChunk))

\* C22: inside a quoted field two adjacent double quotes contribute exactly
\* one literal double quote to the field value and leave the field open,
\* also when the first is the last character of one chunk of parseCSVStream
\* and the second the first character of the next: the parser continues
\* with the rest of that chunk as from the open field with one quote added.
C22_EscapedQuoteAcrossChunks == [][C22_PushStep]_vars

\* ---- C23

\* the last character pulled is a '\r' met outside quotes at the very end of
\* a chunk, where it ended a row
CarriageReturnEndsChunk ==
  /\ pc = "await"
  /\ Len(fed) > 0
  /\ fed[Len(fed)] = CARRIAGE_RETURN
  /\ ~parser[1].inQuotes

\* what C23 asks of the step that pushes the chunk beginning with the '\n'
\* of the pair: the '\n' ends no further row, so the parser continues with
\* the rest of the chunk from the state the '\r' left
C23_PushStep ==
  (/\ CarriageReturnEndsChunk
   /\ fed' # fed
   /\ PushedChunk[1] = NEWLINE) =>
    \E expected \in {Push(parser[1], Tail(PushedChunk))} :
      /\ parser'[1].currentRowNumber = expected.currentRowNumber
      /\ Len(parser'[1].rowLog) = Len(expected.rowLog)
      /\ parser'[1].thrown = expected.thrown

\* C23: a CRLF pair outside quotes whose '\r' is the last character of one
\* chunk and whose '\n' is the first character of the next is consumed by
\* parseCSVStream as a single row terminator: the row counter advances by
\* exactly one, so the row numbers of later errors are those of the parse of
\* the concatenated text.
C23_CRLFAcrossChunks == [][C23_PushStep]_vars

\* ---- C24

\* the text between two quotes has its double quotes in adjacent pairs only
RECURSIVE IsEscapedText(_)
IsEscapedText(body) ==
  IF Len(body) = 0 THEN TRUE
  ELSE IF body[1] # DOUBLE_QUOTE THEN IsEscapedText(Tail(body))
  ELSE Len(body) >= 2 /\ body[2] = DOUBLE_QUOTE /\ IsEscapedText(Tail(Tail(body)))

\* that text with every pair of double quotes replaced by one
RECURSIVE Unescaped(_)
Unescaped(body) ==
  IF Len(body) = 0 THEN <<>>
  ELSE IF body[1] = DOUBLE_QUOTE THEN <<DOUBLE_QUOTE>> \o Unescaped(Tail(Tail(body)))
  ELSE <<body[1]>> \o Unescaped(Tail(body))

\* the number of positions of s that hold c
Count(s, c) == Cardinality({n \in 1..Len(s) : s[n] = c})

\* the part of s after its last line feed
LastLine(s) ==
  SubSeq(s, 1 + (IF Includes(s, NEWLINE)
                   THEN CHOOSE n \in 1..Len(s) :
                          s[n] = NEWLINE /\ \A m \in (n + 1)..Len(s) : s[m] # NEWLINE
                   ELSE 0),
         Len(s))

\* the text holds, from i to j, a field written between quotes, the first
\* quoted field of the text, followed up to k by spaces and tabs that are
\* not the delimiter, and then by the delimiter, a row terminator or the end
IsQuotedFieldAt(i, j, k) ==
  /\ i < j /\ j <= k
  /\ csv[i] = DOUBLE_QUOTE /\ csv[j] = DOUBLE_QUOTE
  /\ ~Includes(SubSeq(csv, 1, i - 1), DOUBLE_QUOTE)
  /\ ~Includes(SubSeq(csv, 1, i - 1), CARRIAGE_RETURN)
  /\ (i = 1 \/ <<csv[i - 1]>> = options.delimiter \/ csv[i - 1] = NEWLINE)
  /\ \A n \in (j + 1)..k : csv[n] \in {SPACE, TAB} /\ <<csv[n]>> # options.delimiter
  /\ \/ k = Len(csv)
     \/ <<csv[k + 1]>> = options.delimiter
     \/ csv[k + 1] \in {NEWLINE, CARRIAGE_RETURN}
  /\ IsEscapedText(SubSeq(csv, i + 1, j - 1))

\* C24: for a quoted field, the spaces and tabs between the closing quote
\* and the next delimiter, row terminator or the end of the text are
\* discarded: the field value is exactly the unescaped text between the
\* quotes, as a raw field, as a header name and as a record value, with trim
\* on or off; a space or tab that is the delimiter ends the field instead.
C24_AfterClosingQuote ==
  ParserRan =>
    \A i, j, k \in 1..Len(csv) :
      IsQuotedFieldAt(i, j, k) =>
        \A r \in {1 + Count(SubSeq(csv, 1, i - 1), NEWLINE)},
           f \in {1 + Count(LastLine(SubSeq(csv, 1, i - 1)), options.delimiter[1])},
           text \in {Unescaped(SubSeq(csv, i + 1, j - 1))} :
          Len(RowLog) >= r =>
            /\ Len(RowLog[r].fields) >= f
            /\ RowLog[r].fields[f] = text
            /\ RowLog[r].quoted[f]
            /\ (k < Len(csv) /\ <<csv[k + 1]>> = options.delimiter) =>
                 Len(RowLog[r].fields) > f
            /\ (r = 1 /\ parser[1].headers # None) => HeaderNamesOf(parser[1])[f] = text
            /\ (r > 1 /\ GaveRecord(r) /\ f <= Len(HeaderNamesOf(parser[1]))) =>
                 \E n \in 1..Len(RecordOf(r)) :
                   RecordOf(r)[n] = <<HeaderNamesOf(parser[1])[f], text>>

\* with the tab as delimiter and strict off, the second row
\* <tab>"a"""""<space><tab>a under the header 1<tab>a gave the fields '',
\* a"" and a, and the record whose value under a is a"": the space was
\* discarded and the tab ended the field
C24_Witness ==
  /\ pc = "returned"
  /\ options.delimiter = <<TAB>>
  /\ csv = <<"1", "\t", "a", "\n", "\t">>
             \o <<"\"", "a", "\"", "\"", "\"", "\"", "\"", " ", "\t", "a">>
  /\ IsQuotedFieldAt(6, 12, 13)
  /\ RowLog[2].fields = <<<<>>, <<"a", "\"", "\"">>, <<"a">>>>
  /\ result = Some(<< <<<<<<"1">>, <<>>>>, <<<<"a">>, <<"a", "\"", "\"">>>>>> >>)

\* ---- C25

\* the text ends neither with a line terminator nor inside an open quoted
\* field
EndsWithOpenRow ==
  /\ Len(csv) = 0 \/ csv[Len(csv)] \notin {NEWLINE, CARRIAGE_RETURN}
  /\ ~(parser # None /\ parser[1].inQuotes)

\* C25: a final row needs no line terminator: for every text t that ends
\* neither with a line terminator nor inside an open quoted field,
\* parseCSV(t) and parseCSV(t + '\n') have the same outcome, the same
\* records or the same error.
C25_FinalRowNeedsNoTerminator ==
  (ParseEnded /\ EndsWithOpenRow) =>
    \E terminated \in {ParseCSV(csv \o <<NEWLINE>>, options)} :
      /\ terminated.returned = result
      /\ terminated.thrown = error

\* ---- C26

\* the rows of the log that give a record, in row order: the data rows that
\* are not blank and did not raise
RecordRows ==
  SelectSeq([i \in 1..Len(RowLog) |-> i],
            LAMBDA i : /\ i >= 2
                       /\ ~RaisedAt(i)
                       /\ (Len(RowLog[i].fields) >= 2 \/ Populated(RowLog[i], 1)))

\* what C26 asks of every state: the queue is empty whenever a chunk is
\* about to be pulled, and the records yielded so far followed by the queued
\* ones are the records of the completed rows, one each, in row order
C26_EveryState ==
  parser # None =>
    /\ pc = "await" => parser[1].queue = <<>>
    /\ pc = "drain" => parser[1].queue # <<>>
    /\ Len(StreamEmitted) = Len(RecordRows)
    /\ \A n \in 1..Len(RecordRows) :
         HasRowValues(StreamEmitted[n], RowLog[RecordRows[n]], HeaderNamesOf(parser[1]))

\* what C26 asks of every step: a yield hands over the oldest queued record
\* and removes it; a chunk is pulled with an empty queue and completes no
\* more rows than it holds terminators; the only other step that completes a
\* row is the finalization, which completes one, after which nothing is
\* pulled
C26_EveryStep ==
  (parser # None /\ parser' # None) =>
    /\ yielded' # yielded =>
         /\ parser[1].queue # <<>>
         /\ yielded' = Append(yielded, Head(parser[1].queue))
         /\ parser'[1].queue = Tail(parser[1].queue)
         /\ parser'[1].rowLog = parser[1].rowLog
         /\ fed' = fed
    /\ fed' # fed =>
         /\ pc = "await"
         /\ parser[1].queue = <<>>
         /\ Len(parser'[1].rowLog) - Len(parser[1].rowLog) <= Count(PushedChunk, NEWLINE)
    /\ (fed' = fed /\ parser'[1].rowLog # parser[1].rowLog) =>
         /\ pc = "await"
         /\ pc' \in {"flush", "done", "threw"}
         /\ Len(parser'[1].rowLog) = Len(parser[1].rowLog) + 1
         /\ yielded' = yielded
    /\ pc \in {"flush", "done", "threw"} =>
         /\ fed' = fed
         /\ parser'[1].rowLog = parser[1].rowLog
         /\ pc' \in {"flush", "done"}

\* C26: parseCSVStream yields every record completed by a chunk, in row
\* order, before it pulls the next chunk (the queue is empty at every pull);
\* the record of a final row without terminator is yielded only after the
\* source is exhausted and the finalization has run; no record is yielded
\* twice or out of row order.
C26_YieldOrder == []C26_EveryState /\ [][C26_EveryStep]_vars

\* a chunk ending the rows ',' and 'a' after the header a left their two
\* records queued in row order, none of them yielded yet
C26_Witness ==
  /\ pc = "drain"
  /\ fed = <<"a", "\n", ",", "\n", "a", "\n">>
  /\ Len(RowLog) = 3
  /\ yielded = <<>>
  /\ parser[1].queue = << <<<<<<"a">>, <<>>>>>>, <<<<<<"a">>, <<"a">>>>>> >>

\* ---- C27

\* C27 as stated: a parse that raises an error delivers no records to the
\* caller: for parseCSV and for parseCSVStream alike, the caller observes
\* either the complete record sequence of the document and no error, or a
\* single error and no record at all.
C27_AllOrNothing ==
  /\ error # None => (result = None /\ yielded = <<>>)
  /\ pc \in {"returned", "done"} => error = None

\* what the amended C27 asks of every state
C27_EveryState ==
  /\ error # None <=> pc = "threw"
  /\ error # None => result = None
  /\ pc = "returned" => (result # None /\ (parser # None => result[1] = Emitted))
  /\ pc = "done" => parser[1].queue = <<>>
  /\ (pc \in {"done", "threw"} /\ result = None /\ parser # None) =>
       /\ Len(StreamEmitted) = Len(RecordRows)
       /\ \A n \in 1..Len(RecordRows) :
            HasRowValues(StreamEmitted[n], RowLog[RecordRows[n]], HeaderNamesOf(parser[1]))

\* what the amended C27 asks of every step: the step that raises the error
\* yields nothing and is taken with an empty queue, so that every record
\* completed before it has been yielded; no step follows it
C27_EveryStep ==
  /\ (error = None /\ error' # None) =>
       /\ yielded' = yielded
       /\ parser # None => parser[1].queue = <<>>
  /\ error # None => (yielded' = yielded /\ error' = error /\ result' = result)

\* C27 amended: parseCSV either returns the complete record sequence and
\* raises no error, or raises a single error and returns no record.
\* parseCSVStream raises at most one error, which ends the parse: nothing is
\* yielded after it and the records completed by the chunk that raised are
\* not delivered; but the records of the rows completed by the chunks pulled
\* before it (for an error of the finalization: of all rows before the final
\* one) have been yielded to the caller before the error.
C27_ErrorEndsParse == []C27_EveryState /\ [][C27_EveryStep]_vars

\* parseCSVStream yielded the record of the second row and then failed, in
\* strict mode, at the surplus field of the third
C27_Witness ==
  /\ pc = "threw"
  /\ fed = <<"a", "\n", "a", "\n", ",", "a", "\n">>
  /\ yielded = << <<<<<<"a">>, <<"a">>>>>> >>
  /\ parser[1].queue = <<>>
  /\ error = Some(SyntaxError(
       <<"CSV row ", "3", " has ", "1", " extra field(s): expected ", "1",
         " column(s), found ", "2">>))

\* ---- C28

\* C28: for a chunk sequence whose concatenation is empty or holds only
\* whitespace (spaces, tabs, line terminators), parseCSVStream yields no
\* record and raises no error, as parseCSV does, which returns an empty list
\* for every such text.
C28_WhitespaceOnlyStream ==
  (parser # None /\ IsBlank(fed)) =>
    /\ ParseCSV(fed, options) = [returned |-> Some(<<>>), thrown |-> None, parser |-> None]
    /\ yielded = <<>>
    /\ error = None
    /\ pc # "threw"

\* ---- C29

\* a parse run alone over chunks: the parser it holds once every chunk is
\* pushed and its records are drained (or once a push has thrown), and the
\* records it has yielded by then
RECURSIVE AloneFrom(_, _, _)
AloneFrom(p, given, chunks) ==
  IF Len(chunks) = 0 THEN [parser |-> p, yielded |-> given]
  ELSE LET pushed == Push(p, Head(chunks))
       IN  IF HasThrown(pushed)
             THEN [parser |-> pushed, yielded |-> given]
             ELSE AloneFrom([pushed EXCEPT !.queue = <<>>], given \o pushed.queue,
                            Tail(chunks))

Alone(chunks) == AloneFrom(NewParser(options), <<>>, chunks)

\* that parse after its source is exhausted
AloneEnded(chunks) ==
  LET alone == Alone(chunks)
      finished == Finish(alone.parser)
  IN  IF HasThrown(alone.parser) THEN alone
      ELSE [parser |-> [finished EXCEPT !.queue = <<>>],
            yielded |-> IF HasThrown(finished) THEN alone.yielded
                        ELSE alone.yielded \o finished.queue]

\* the records parse i has yielded followed by those it holds queued
EmittedBy(i) == yielded[i] \o (IF pc[i] = "threw" THEN <<>> ELSE parser[i][1].queue)

\* what C29 asks of every state: each parse stands where it would stand had
\* it pulled its chunks alone
C29_EveryState ==
  \A i \in Parses :
    parser[i] # None =>
      \E alone \in {IF pc[i] \in {"flush", "done"} \/ (pc[i] = "threw" /\ ~HasThrown(Alone(lines[i]).parser))
                      THEN AloneEnded(lines[i]) ELSE Alone(lines[i])} :
        /\ EmittedBy(i) = alone.yielded
        /\ [parser[i][1] EXCEPT !.queue = <<>>] = [alone.parser EXCEPT !.queue = <<>>]
        /\ error[i] = alone.parser.thrown
        /\ pc[i] = "threw" <=> HasThrown(alone.parser)
        /\ pc[i] = "done" => yielded[i] = alone.yielded

\* what C29 asks of every step: it is the step of one parse and leaves the
\* state of every other parse as it is
C29_EveryStep ==
  \E i \in Parses :
    \A j \in Parses \ {i} :
      /\ pc'[j] = pc[j]
      /\ parser'[j] = parser[j]
      /\ fed'[j] = fed[j]
      /\ lines'[j] = lines[j]
      /\ yielded'[j] = yielded[j]
      /\ error'[j] = error[j]

\* C29: parseCSVStream parses running concurrently, their chunk pulls and
\* record yields interleaved in any order, each yield exactly the records, or
\* raise exactly the error, they would when run alone: every parse owns its
\* parser state and queue, and no step of one parse changes the state of
\* another.
C29_IndependentParses == []C29_EveryState /\ [][C29_EveryStep]_vars

\* the first parse has yielded the record of its second row and is done
\* while the second, in strict mode, has failed at the surplus field of its
\* second row
C29_Witness ==
  /\ options.strict
  /\ pc[1] = "done"
  /\ lines[1] = <<<<"a", "\n">>, <<"a">>>>
  /\ yielded[1] = << <<<<<<"a">>, <<"a">>>>>> >>
  /\ pc[2] = "threw"
  /\ lines[2] = <<<<"a", "\n">>, <<",", "a", "\n">>>>
  /\ yielded[2] = <<>>
  /\ error[2] = Some(SyntaxError(
       <<"CSV row ", "2", " has ", "1", " extra field(s): expected ", "1",
         " column(s), found ", "2">>))

\* ---- C30

\* what C30 asks of the step that pushes a chunk beginning with a double
\* quote into a parser that is outside quotes: with an empty field the quote
\* opens quoted mode; otherwise it is appended to the field, the parser
\* goes on outside quotes with the rest of the chunk, and a delimiter or
\* line terminator that comes next ends the field or the row
C30_PushStep ==
  (/\ pc = "await"
   /\ fed' # fed
   /\ PushedChunk[1] = DOUBLE_QUOTE
   /\ ~parser[1].inQuotes) =>
    \A rest \in {Tail(PushedChunk)}, literal \in {Append(parser[1].currentField, DOUBLE_QUOTE)} :
      IF Len(parser[1].currentField) = 0
        THEN parser'[1] =
               Push([parser[1] EXCEPT !.inQuotes = TRUE, !.isFieldQuoted = TRUE], rest)
        ELSE /\ parser'[1] = Push([parser[1] EXCEPT !.currentField = literal], rest)
             /\ (rest # <<>> /\ rest[1] = COMMA) =>
                  parser'[1] =
                    Push([parser[1] EXCEPT
                            !.currentRow = Append(@, literal),
                            !.currentRowQuotedFlags = Append(@, parser[1].isFieldQuoted),
                            !.currentField = <<>>,
                            !.isFieldQuoted = FALSE],
                         Tail(rest))
             /\ (rest # <<>> /\ rest[1] \in {NEWLINE, CARRIAGE_RETURN}) =>
                  /\ Len(parser'[1].rowLog) > Len(parser[1].rowLog)
                  /\ parser'[1].rowLog[Len(parser[1].rowLog) + 1].fields =
                       Append(parser[1].currentRow, literal)

\* C30: a double quote opens a quoted field only when no character has yet
\* been accumulated for the current field; a double quote met outside quotes
\* after any other field character (leading whitespace included) is kept as
\* a literal character of the value and does not protect the delimiter or
\* line terminator that follows it from splitting the field or row.
C30_QuoteInsideField == [][C30_PushStep]_vars

\* the header row <space>",a was split at the comma after its literal quote:
\* with trim on its names are " and a
C30_Witness ==
  /\ pc = "await"
  /\ options.trim
  /\ fed = <<" ", "\"", ",", "a", "\n">>
  /\ RowLog[1].fields = <<<<" ", "\"">>, <<"a">>>>
  /\ RowLog[1].quoted = <<FALSE, FALSE>>
  /\ parser[1].headers = Some(<<<<"\"">>, <<"a">>>>)

====
